---- MODULE Spec2Model ----
(***************************************************************************)
(* Strategy versioning and image association of the strategy manager.     *)
(*                                                                         *)
(* The database (schema.sql) holds maps, strategies, strategy_versions    *)
(* and strategy_images; the object store holds uploaded files.  Browser   *)
(* sessions run the create form (NewStrategyPage) and the edit form       *)
(* (EditStrategyPage); every awaited backend call of lib/database.ts and  *)
(* lib/storage.ts is one atomic step, so calls of different sessions      *)
(* interleave between awaits.  A backend call may fail.                   *)
(***************************************************************************)
EXTENDS Integers, Sequences, FiniteSets, TLC

\* ------------------------------------------------------------------ bounds
MaxOps == 3          \* user operations (form submissions, file selections,
                     \*   description edits, image deletions) over a behaviour
MaxFailures == 1     \* backend calls that fail over a behaviour
MaxFiles == 1        \* files pending upload on one form

Sessions == {"A", "B"}                 \* two browser tabs
MapIds == {1}                          \* the maps in the database

NULL == 0                              \* SQL NULL / undefined

\* Form inputs (title, description, change_notes); "" is an empty field.
CreateForms == { [title |-> "t1", description |-> "d1", change_notes |-> ""] }
EditForms == { [title |-> "t2", description |-> "d2", change_notes |-> "n2"] }

\* Texts typed into an image description field.
DescInputs == {" ", " a"}

\* String.prototype.trim on the texts of the model.
Trim(t) == CASE t = " a" -> "a" [] t = " " -> "" [] OTHER -> t

\* Pending uploads of a form: one description per selected file.
FileDescs == {""}
FileLists == UNION { [1..n -> FileDescs] : n \in 0..MaxFiles }

\* handleImageSelect: file.size <= 5 * 1024 * 1024
MaxFileSize == 5 * 1024 * 1024

\* The k-th image file a user may select; it passes the filter of
\* handleImageSelect.
ImageFile(k) ==
  [ name |-> "img" \o ToString(k), type |-> "image/png", size |-> MaxFileSize ]

\* uploadedImages of a form on which n image files were accepted.
AcceptedFiles(n) == [k \in 1..n |-> ImageFile(k)]

\* The files of the folder a user selects from, in the order the file dialog
\* hands them over: an image one byte above the size limit, two images of
\* exactly the limit, and a file that is no image.
Folder ==
  << [ name |-> "big", type |-> "image/png", size |-> MaxFileSize + 1 ] >>
    \o AcceptedFiles(2)
    \o << [ name |-> "doc", type |-> "text/plain", size |-> 1 ] >>


VARIABLES
  maps,               \* id -> [strategy_count]
  strategies,         \* id -> [map_id, title, description, current_version_id]
  strategy_versions,  \* set of rows
  strategy_images,    \* set of rows
  bucket,             \* paths stored in the strategy-images bucket
  nextId,             \* [strategy, version, image, path] -> next fresh id
  sess,               \* session -> control state and locals of its form
  ops,                \* user operations started
  failures,           \* backend failures so far
  hist,               \* strategy id -> [edits, clean]: calls that returned,
                      \*   and whether every call so far ran alone and unfailed
  mockMaps            \* the module's mock list, used when supabase is null

vars == <<maps, strategies, strategy_versions, strategy_images, bucket,
          nextId, sess, ops, failures, hist, mockMaps>>

\* const mockMaps: Map[] = [...]: the list the module starts with.
MockMap(id, name, description) ==
  [ id |-> id, name |-> name, description |-> description, strategy_count |-> 0 ]

SeededMaps ==
  << MockMap(1, "Desert Storm",
             "A classic desert map perfect for long-range engagements"),
     MockMap(2, "Urban Warfare", "Close-quarters combat in city environments") >>

NoErr == [call |-> "none", kind |-> "none"]
Err(c, k) == [call |-> c, kind |-> k]

\* No call has left a result yet.
NoRet == [call |-> "none", threw |-> FALSE, versionError |-> FALSE, data |-> {}]

\* StrategyDetailPage before its first load: loading is true, no strategy.
\* inflight holds the getStrategy requests not yet answered, numbered in the
\* order of issue; from is the number of the request whose answer set the
\* strategy shown.
NoDetail ==
  [ loading |-> TRUE, refreshing |-> FALSE, strategy |-> NULL,
    inflight |-> {}, issued |-> 0, from |-> 0 ]

IdleSession ==
  [ pc |-> "idle", flow |-> "none", sid |-> NULL, map |-> NULL,
    form |-> [title |-> "", description |-> "", change_notes |-> ""],
    files |-> << >>,       \* imageDescriptions
    uploadedImages |-> << >>,
    imagePreviews |-> << >>, \* names of the files whose data URLs are held
    readers |-> << >>,     \* files of the FileReaders that have not finished
    selected |-> << >>,    \* e.target.files of the last change event
    selectError |-> FALSE, \* setError of handleImageSelect was called
    imageUrls |-> << >>,   \* imageUrls of uploadStrategyImages
    failedFile |-> NULL,   \* file name in the error of uploadStrategyImages
    ret |-> NoRet,          \* outcome of the last library call made directly
    detail |-> NoDetail,   \* state of StrategyDetailPage
    loadedCur |-> NULL,    \* strategy.current_version_id of the page state
    loadedImages |-> {},   \* strategy.images of the page state
    loadedOrdered |-> TRUE,\* whether they came ordered by position
    descs |-> << >>,       \* existingImageDescriptions
    next |-> 0,            \* nextVersionNumber
    curRead |-> NULL,      \* currentStrategy.current_version_id
    newVid |-> NULL,       \* id of the version row this call inserted
    versionId |-> NULL,    \* current_version_id of the returned strategy
    prevCur |-> NULL,      \* pointer replaced by this call's pointer update
    wrotePtr |-> FALSE,
    raced |-> FALSE,       \* another call was about to insert the same
                           \*   (strategy, number) when this one inserted
    failedCall |-> "none", \* first backend call of updateStrategy that failed
    writeAfterFail |-> FALSE,
    copyQueue |-> {},      \* selected rows the copy loop has not reached yet
    copySel |-> {},        \* rows the select of copyImagesToVersion returned
    attempted |-> << >>,   \* source rows the copy loop has handled, in order
    copied |-> << >>,      \* copiedImages
    newImgs |-> << >>,     \* newVersionImages
    descQueue |-> << >>,   \* changed entries the loop has not reached yet
    base |-> 0, idx |-> 0, path |-> NULL,
    err |-> NoErr ]

\* ------------------------------------------------------------ the database

StrategyExists(id) == id \in DOMAIN strategies

VersionsOf(sid) == { v \in strategy_versions : v.strategy_id = sid }
ImagesOf(sid) == { i \in strategy_images : i.strategy_id = sid }
ImagesOfVersion(sid, vid) == { i \in ImagesOf(sid) : i.version_id = vid }

VersionById(vid) == CHOOSE v \in strategy_versions : v.id = vid
VersionExists(vid) == \E v \in strategy_versions : v.id = vid

\* Mutation: strategy_versions has no unique index.
UniqueViolationNever(sid, n) == FALSE

\* Mutation: the unique index is declared on (strategy_id, id).
UniqueViolationOnId(sid, n) ==
  \E v \in strategy_versions : v.strategy_id = sid /\ v.id = nextId.version

\* UNIQUE(strategy_id, version_number): a row of the strategy has the number.
UniqueViolation(sid, n) ==
  \E v \in strategy_versions : v.strategy_id = sid /\ v.version_number = n

\* Mutation: the insert is not checked against the unique index.
VersionInsertErrorNoUnique(sid, n) ==
  IF ~StrategyExists(sid) THEN "fk" ELSE "none"

\* The error an insert into strategy_versions is answered with: the foreign
\* key of strategy_id, then UNIQUE(strategy_id, version_number).
VersionInsertError(sid, n) ==
  IF ~StrategyExists(sid) THEN "fk"
  ELSE IF UniqueViolation(sid, n) THEN "unique"
  ELSE "none"

VersionRow(id, sid, n, f, notes) ==
  [ id |-> id, strategy_id |-> sid, version_number |-> n,
    title |-> f.title, description |-> f.description, change_notes |-> notes ]

\* Mutation: the edit overwrites the strategy's latest row.
InsertVersionInPlace(row) ==
  { v \in strategy_versions :
      v.strategy_id # row.strategy_id \/ v.version_number + 1 # row.version_number }
    \cup {row}

\* insert into strategy_versions: the table after the insert.
InsertVersion(row) == strategy_versions \cup {row}

\* Mutation: numbering starts at 0.
InitialVersionNumberZero == 1 - 1

\* updateStrategy: let nextVersionNumber = 1
InitialVersionNumber == 1

\* Mutation: the number is not advanced past the current version's.
NextVersionNumberSkips(currentVersion) == currentVersion.version_number + 2

\* Mutation: the number follows the strategy's highest version number.
NextVersionNumberAfterLatest(currentVersion) ==
  1 + CHOOSE n \in { v.version_number : v \in VersionsOf(currentVersion.strategy_id) } :
        \A v \in VersionsOf(currentVersion.strategy_id) : v.version_number <= n

\* updateStrategy: nextVersionNumber = currentVersion.version_number + 1
NextVersionNumber(currentVersion) == currentVersion.version_number + 1

\* trigger_update_map_strategy_count, AFTER INSERT branch.
CountInsert(m) ==
  [maps EXCEPT ![m] = [@ EXCEPT !.strategy_count = @ + 1]]

\* Mutation: the trigger has no DELETE branch.
CountDeleteMissing(m) == maps

\* trigger_update_map_strategy_count, AFTER DELETE branch; the UPDATE touches
\* no row when the map is gone (the strategy is deleted by the map's cascade).
CountDelete(m) ==
  IF m \in DOMAIN maps
  THEN [maps EXCEPT ![m] = [@ EXCEPT !.strategy_count = @ - 1]]
  ELSE maps

\* trigger_update_map_strategy_count, AFTER UPDATE branch.
CountUpdate(old, new) ==
  IF new # old
  THEN [maps EXCEPT ![old] = [@ EXCEPT !.strategy_count = @ - 1],
                    ![new] = [@ EXCEPT !.strategy_count = @ + 1]]
  ELSE maps

\* getPublicUrl: the public URL is derived from the stored path.
UrlOf(path) == <<"public", path>>

ImageRow(id, sid, vid, path, url, alt, pos) ==
  [ id |-> id, strategy_id |-> sid, version_id |-> vid, storage_path |-> path,
    url |-> url, alt_text |-> alt, position_in_content |-> pos ]

\* Mutation: the row is attached to the oldest version row of the table.
createStrategyImageOldestVersion(id, sid, path, url, altText, pos, versionId) ==
  [ id |-> id, strategy_id |-> sid,
    version_id |-> IF versionId = NULL THEN NULL
                   ELSE CHOOSE n \in { v.id : v \in strategy_versions } :
                          \A m \in { v.id : v \in strategy_versions } : n <= m,
    storage_path |-> path, url |-> url, alt_text |-> altText,
    position_in_content |-> pos ]

\* createStrategyImage: the row inserted.  version_id: versionId || null and
\* position_in_content: positionInContent || 0 keep an id and a number as they
\* are; alt_text: altText || `Strategy diagram for ${strategyId}`.
createStrategyImage(id, sid, path, url, altText, pos, versionId) ==
  ImageRow(id, sid, versionId, path, url,
           IF altText # "" THEN altText
           ELSE "Strategy diagram for " \o ToString(sid),
           pos)

\* Foreign keys of strategy_images.
ImageInsertError(sid, vid) ==
  IF ~StrategyExists(sid) THEN "fk"
  ELSE IF vid # NULL /\ ~VersionExists(vid) THEN "fk"
  ELSE "none"

MinPosition(S) ==
  { x \in S : \A y \in S : x.position_in_content <= y.position_in_content }

\* The orders a query "ORDER BY position_in_content" may return a set of rows
\* in: ascending position, rows of equal position in any order.
RECURSIVE OrderedByPosition(_)
OrderedByPosition(S) ==
  IF S = {} THEN { << >> }
  ELSE UNION { { <<x>> \o q : q \in OrderedByPosition(S \ {x}) } :
               x \in MinPosition(S) }

\* The orders a query without ORDER BY may return a set of rows in.
RECURSIVE AnyOrder(_)
AnyOrder(S) ==
  IF S = {} THEN { << >> }
  ELSE UNION { { <<x>> \o q : q \in AnyOrder(S \ {x}) } : x \in S }

\* getStrategyVersions: the rows of a strategy, highest number first.
RECURSIVE ByNumberDesc(_)
ByNumberDesc(S) ==
  IF S = {} THEN << >>
  ELSE LET x == CHOOSE y \in S : \A z \in S : y.version_number >= z.version_number
       IN  <<x>> \o ByNumberDesc(S \ {x})

getStrategyVersions(sid) == ByNumberDesc(VersionsOf(sid))

RangeOf(q) == { q[i] : i \in 1..Len(q) }

\* ------------------------------------------------------------- bookkeeping

CanFail == failures < MaxFailures

InCreateCall(s) == s.pc \in {"c_insVersion", "c_updPointer", "c_fetchVersion"}
InUpdateCall(s) ==
  s.pc \in {"us_readCur", "us_readNum", "us_insVersion", "us_updPointer"}

\* Another session is inside createStrategy or updateStrategy of strategy sid.
Overlaps(p, sid) ==
  \E q \in Sessions \ {p} :
    sess[q].sid = sid /\ (InCreateCall(sess[q]) \/ InUpdateCall(sess[q]))

Dirty(sid) ==
  IF sid \in DOMAIN hist
  THEN [hist EXCEPT ![sid] = [@ EXCEPT !.clean = FALSE]]
  ELSE hist

Returned(sid) ==
  IF sid \in DOMAIN hist
  THEN [hist EXCEPT ![sid] = [@ EXCEPT !.edits = @ + 1]]
  ELSE hist

Throw(p, c, k) ==
  sess' = [sess EXCEPT ![p] = [@ EXCEPT !.pc = "error", !.err = Err(c, k)]]

Init ==
  /\ maps = [m \in MapIds |-> [strategy_count |-> 0]]
  /\ strategies = << >>
  /\ strategy_versions = {}
  /\ strategy_images = {}
  /\ bucket = {}
  /\ nextId = [strategy |-> 1, version |-> 1, image |-> 1, path |-> 1]
  /\ sess = [p \in Sessions |-> IdleSession]
  /\ ops = 0
  /\ failures = 0
  /\ hist = << >>
  /\ mockMaps = SeededMaps

\* ------------------------------------------- NewStrategyPage.onSubmit

\* The page of the session awaits no backend call: the user may open another
\* page (router.push has run, the error view or the loaded form is shown).
AtRest(s) == s.pc \in {"idle", "e_loaded", "done", "error"}

StartCreate(p) ==
  /\ AtRest(sess[p])
  /\ ops < MaxOps
  /\ \E m \in MapIds, f \in CreateForms, fl \in FileLists :
       sess' = [sess EXCEPT ![p] =
                  [IdleSession EXCEPT !.pc = "c_insStrategy", !.flow = "create",
                                      !.map = m, !.form = f, !.files = fl,
                                      !.uploadedImages = AcceptedFiles(Len(fl))]]
  /\ ops' = ops + 1
  /\ UNCHANGED <<mockMaps, maps, strategies, strategy_versions, strategy_images, bucket,
                 nextId, failures, hist>>

\* createStrategy: insert into strategies ... select().single()
CreateInsertStrategy(p) ==
  /\ sess[p].pc = "c_insStrategy"
  /\ \/ /\ sess[p].map \in DOMAIN maps
        /\ LET id == nextId.strategy IN
           /\ strategies' = strategies @@
                (id :> [ map_id |-> sess[p].map,
                         title |-> sess[p].form.title,
                         description |-> sess[p].form.description,
                         current_version_id |-> NULL ])
           /\ maps' = CountInsert(sess[p].map)
           /\ nextId' = [nextId EXCEPT !.strategy = @ + 1]
           /\ hist' = hist @@ (id :> [edits |-> 0, clean |-> TRUE])
           /\ sess' = [sess EXCEPT ![p] =
                         [@ EXCEPT !.pc = "c_insVersion", !.sid = id]]
        /\ UNCHANGED failures
     \/ /\ sess[p].map \notin DOMAIN maps
        /\ Throw(p, "insertStrategy", "fk")
        /\ UNCHANGED <<maps, strategies, nextId, failures, hist>>
     \/ /\ CanFail
        /\ failures' = failures + 1
        /\ Throw(p, "insertStrategy", "backend")
        /\ UNCHANGED <<maps, strategies, nextId, hist>>
  /\ UNCHANGED <<mockMaps, strategy_versions, strategy_images, bucket, ops>>

\* createStrategy: insert into strategy_versions, version_number 1
CreateInsertVersion(p) ==
  /\ sess[p].pc = "c_insVersion"
  /\ LET s == sess[p]
         e == VersionInsertError(s.sid, 1)
         notes == IF s.form.change_notes = "" THEN "Initial version"
                  ELSE s.form.change_notes
     IN
     \/ /\ e = "none"
        /\ strategy_versions' =
             InsertVersion(VersionRow(nextId.version, s.sid, 1, s.form, notes))
        /\ nextId' = [nextId EXCEPT !.version = @ + 1]
        /\ sess' = [sess EXCEPT ![p] =
                      [@ EXCEPT !.pc = "c_updPointer",
                                !.newVid = nextId.version]]
        /\ UNCHANGED <<failures, hist>>
     \/ /\ e # "none"
        /\ Throw(p, "insertVersion", e)
        /\ hist' = Dirty(s.sid)
        /\ UNCHANGED <<strategy_versions, nextId, failures>>
     \/ /\ CanFail
        /\ failures' = failures + 1
        /\ Throw(p, "insertVersion", "backend")
        /\ hist' = Dirty(s.sid)
        /\ UNCHANGED <<strategy_versions, nextId>>
  /\ UNCHANGED <<mockMaps, maps, strategies, strategy_images, bucket, ops>>

\* Mutation: the catch block deletes the strategy it inserted.
CatchCreateStrategyDeletes(sid) ==
  [k \in (DOMAIN strategies) \ {sid} |-> strategies[k]]

\* createStrategy: catch (error) { console.error(...); throw error }: the
\* strategies table after the catch block.
CatchCreateStrategy(sid) == strategies

\* createStrategy: update strategies set current_version_id ... single()
CreateUpdatePointer(p) ==
  /\ sess[p].pc = "c_updPointer"
  /\ LET s == sess[p] IN
     \/ /\ StrategyExists(s.sid)
        /\ strategies' = [strategies EXCEPT ![s.sid] =
                            [@ EXCEPT !.current_version_id = s.newVid]]
        /\ sess' = [sess EXCEPT ![p] =
                      [@ EXCEPT !.pc = "c_fetchVersion",
                                !.prevCur = strategies[s.sid].current_version_id,
                                !.wrotePtr = TRUE,
                                !.versionId = s.newVid]]
        /\ UNCHANGED <<failures, hist>>
     \/ /\ ~StrategyExists(s.sid)
        /\ Throw(p, "updatePointer", "norow")
        /\ hist' = Dirty(s.sid)
        /\ UNCHANGED <<strategies, failures>>
     \/ /\ CanFail
        /\ failures' = failures + 1
        /\ Throw(p, "updatePointer", "backend")
        /\ hist' = Dirty(s.sid)
        /\ strategies' = CatchCreateStrategy(s.sid)
  /\ UNCHANGED <<mockMaps, maps, strategy_versions, strategy_images, bucket, nextId, ops>>

\* createStrategy: fetch the current version and return; onSubmit then
\* starts uploadStrategyImages when files were selected.
CreateFetchVersion(p) ==
  /\ sess[p].pc = "c_fetchVersion"
  /\ LET s == sess[p] IN
     \/ /\ VersionExists(s.newVid)
        /\ hist' = Returned(s.sid)
        /\ sess' = [sess EXCEPT ![p] =
                      [@ EXCEPT !.pc = IF Len(s.files) > 0 THEN "u_upload"
                                       ELSE "done",
                                !.base = 0, !.idx = 0]]
        /\ UNCHANGED failures
     \/ /\ ~VersionExists(s.newVid)
        /\ Throw(p, "fetchVersion", "norow")
        /\ hist' = Dirty(s.sid)
        /\ UNCHANGED failures
     \/ /\ CanFail
        /\ failures' = failures + 1
        /\ Throw(p, "fetchVersion", "backend")
        /\ hist' = Dirty(s.sid)
  /\ UNCHANGED <<mockMaps, maps, strategies, strategy_versions, strategy_images, bucket,
                 nextId, ops>>

\* ------------------------------------------- EditStrategyPage: page state

\* getStrategy on an existing strategy returns the image rows of the strategy
\* (every version's).  The aggregated call orders them by position_in_content;
\* when it fails (one failed call) the fallback query returns them in no
\* stated order.  Both calls failing makes getStrategy throw.  The rows are
\* kept as a set; the order is drawn where the page depends on it.
getStrategy(sid) ==
  { [cost |-> 0, images |-> ImagesOf(sid), ordered |-> TRUE],
    [cost |-> 1, images |-> ImagesOf(sid),
     ordered |-> Cardinality(ImagesOf(sid)) < 2] }

ResultOrders(S, ordered) ==
  IF ordered THEN OrderedByPosition(S) ELSE AnyOrder(S)

\* loadStrategy: existingImageDescriptions gets one entry per loaded image
\* with a non-empty alt_text.  Entries are kept in ascending image id; the
\* iteration order of Object.entries is drawn in EntryOrders.
RECURSIVE EntriesOf(_)
EntriesOf(S) ==
  IF S = {} THEN << >>
  ELSE LET x == CHOOSE y \in S : \A z \in S : y.id <= z.id
       IN  <<[id |-> x.id, description |-> x.alt_text]>> \o EntriesOf(S \ {x})

LoadedDescs(imgs) == EntriesOf({ i \in imgs : i.alt_text # "" })

LoadStrategy(p) ==
  /\ AtRest(sess[p])
  /\ \E sid \in DOMAIN strategies :
       \/ \E r \in getStrategy(sid) :
            /\ failures + r.cost <= MaxFailures
            /\ failures' = failures + r.cost
            /\ sess' = [sess EXCEPT ![p] =
                  [IdleSession EXCEPT
                     !.pc = "e_loaded", !.flow = "edit", !.sid = sid,
                     !.loadedCur = strategies[sid].current_version_id,
                     !.loadedImages = r.images,
                     !.loadedOrdered = r.ordered,
                     !.descs = LoadedDescs(r.images)]]
       \/ /\ failures + 2 <= MaxFailures
          /\ failures' = failures + 2
          /\ sess' = [sess EXCEPT ![p] =
                [IdleSession EXCEPT !.pc = "error", !.flow = "edit", !.sid = sid,
                                    !.err = Err("getStrategy", "backend")]]
  /\ UNCHANGED <<mockMaps, maps, strategies, strategy_versions, strategy_images, bucket,
                 nextId, ops, hist>>

\* setExistingImageDescriptions(prev => ({...prev, [imageId]: description}))
SetDesc(descs, id, d) ==
  IF \E k \in 1..Len(descs) : descs[k].id = id
  THEN [k \in 1..Len(descs) |->
          IF descs[k].id = id THEN [id |-> id, description |-> d] ELSE descs[k]]
  ELSE Append(descs, [id |-> id, description |-> d])

updateExistingImageDescription(p) ==
  /\ sess[p].pc = "e_loaded"
  /\ ops < MaxOps
  /\ ops' = ops + 1
  /\ \E img \in sess[p].loadedImages, d \in DescInputs :
       sess' = [sess EXCEPT ![p] = [@ EXCEPT !.descs = SetDesc(@, img.id, d)]]
  /\ UNCHANGED <<mockMaps, maps, strategies, strategy_versions, strategy_images, bucket,
                 nextId, failures, hist>>

\* deleteExistingImage: deleteStrategyImage(imageId), then drop the image from
\* the page's strategy.images; a failure puts the page in its error view.
deleteExistingImage(p) ==
  /\ sess[p].pc = "e_loaded"
  /\ ops < MaxOps
  /\ ops' = ops + 1
  /\ \E img \in sess[p].loadedImages :
       LET id == img.id IN
       \/ /\ strategy_images' = { i \in strategy_images : i.id # id }
          /\ sess' = [sess EXCEPT ![p] =
                        [@ EXCEPT !.loadedImages = { i \in @ : i.id # id }]]
          /\ UNCHANGED failures
       \/ /\ CanFail
          /\ failures' = failures + 1
          /\ Throw(p, "deleteStrategyImage", "backend")
          /\ UNCHANGED strategy_images
  /\ UNCHANGED <<mockMaps, maps, strategies, strategy_versions, bucket, nextId, hist>>

\* handleImageSelect: files accepted into the pending upload list.
SelectFiles(p) ==
  /\ sess[p].pc = "e_loaded"
  /\ sess[p].files = << >>
  /\ \E fl \in FileLists \ { << >> } :
       sess' = [sess EXCEPT ![p] =
                  [@ EXCEPT !.files = fl,
                            !.uploadedImages = AcceptedFiles(Len(fl))]]
  /\ UNCHANGED <<mockMaps, maps, strategies, strategy_versions, strategy_images, bucket,
                 nextId, ops, failures, hist>>

\* onSubmit: setError(null), then updateStrategy(strategyId, strategyData) is
\* called.
Submit(p) ==
  /\ sess[p].pc = "e_loaded"
  /\ ops < MaxOps
  /\ \E f \in EditForms :
       sess' = [sess EXCEPT ![p] =
                  [@ EXCEPT !.pc = "us_readCur",
                            !.selectError = FALSE,
                            !.form = [f EXCEPT !.change_notes =
                                        IF @ = "" THEN "Updated strategy" ELSE @]]]
  /\ ops' = ops + 1
  /\ hist' = IF Overlaps(p, sess[p].sid) THEN Dirty(sess[p].sid) ELSE hist
  /\ UNCHANGED <<mockMaps, maps, strategies, strategy_versions, strategy_images, bucket,
                 nextId, failures>>

\* ------------------------------------------------------- updateStrategy

\* select current_version_id from strategies where id = ... single()
UpdReadCurrent(p) ==
  /\ sess[p].pc = "us_readCur"
  /\ LET s == sess[p] IN
     \/ /\ StrategyExists(s.sid)
        /\ LET cur == strategies[s.sid].current_version_id IN
           sess' = [sess EXCEPT ![p] =
                      [@ EXCEPT !.curRead = cur, !.next = InitialVersionNumber,
                                !.pc = IF cur # NULL THEN "us_readNum"
                                       ELSE "us_insVersion"]]
        /\ UNCHANGED <<failures, hist>>
     \/ /\ ~StrategyExists(s.sid)
        /\ sess' = [sess EXCEPT ![p] =
                      [@ EXCEPT !.pc = "error", !.failedCall = "readCur",
                                !.err = Err("readCur", "norow")]]
        /\ hist' = Dirty(s.sid)
        /\ UNCHANGED failures
     \/ /\ CanFail
        /\ failures' = failures + 1
        /\ sess' = [sess EXCEPT ![p] =
                      [@ EXCEPT !.pc = "error", !.failedCall = "readCur",
                                !.err = Err("readCur", "backend")]]
        /\ hist' = Dirty(s.sid)
  /\ UNCHANGED <<mockMaps, maps, strategies, strategy_versions, strategy_images, bucket,
                 nextId, ops>>

\* select version_number from strategy_versions where id = current_version_id;
\* only data is destructured: on an error nextVersionNumber stays 1.
UpdReadNumber(p) ==
  /\ sess[p].pc = "us_readNum"
  /\ LET s == sess[p] IN
     \/ /\ VersionExists(s.curRead)
        /\ sess' = [sess EXCEPT ![p] =
                      [@ EXCEPT !.pc = "us_insVersion",
                                !.next = NextVersionNumber(VersionById(s.curRead))]]
        /\ UNCHANGED <<failures, hist>>
     \/ /\ ~VersionExists(s.curRead)
        /\ sess' = [sess EXCEPT ![p] =
                      [@ EXCEPT !.pc = "us_insVersion",
                                !.failedCall = "readNum"]]
        /\ hist' = Dirty(s.sid)
        /\ UNCHANGED failures
     \/ /\ CanFail
        /\ failures' = failures + 1
        /\ sess' = [sess EXCEPT ![p] =
                      [@ EXCEPT !.pc = "us_insVersion",
                                !.failedCall = "readNum"]]
        /\ hist' = Dirty(s.sid)
  /\ UNCHANGED <<mockMaps, maps, strategies, strategy_versions, strategy_images, bucket,
                 nextId, ops>>

\* Session q is about to insert the same (strategy_id, version_number) as p.
Racing(p, q) ==
  /\ q # p
  /\ sess[q].pc = "us_insVersion"
  /\ sess[q].sid = sess[p].sid
  /\ sess[q].next = sess[p].next

\* The sessions after p's step r, the calls racing with p marked.
WithRace(p, r) ==
  [q \in Sessions |->
     IF q = p THEN [r EXCEPT !.raced = @ \/ \E o \in Sessions : Racing(p, o)]
     ELSE IF Racing(p, q) THEN [sess[q] EXCEPT !.raced = TRUE]
     ELSE sess[q]]

\* insert into strategy_versions (strategy_id, nextVersionNumber, ...)
UpdInsertVersion(p) ==
  /\ sess[p].pc = "us_insVersion"
  /\ LET s == sess[p]
         e == VersionInsertError(s.sid, s.next)
         after == s.failedCall # "none"
         fc == IF s.failedCall = "none" THEN "insert" ELSE s.failedCall
     IN
     \/ /\ e = "none"
        /\ strategy_versions' =
             InsertVersion(VersionRow(nextId.version, s.sid, s.next, s.form,
                                      s.form.change_notes))
        /\ nextId' = [nextId EXCEPT !.version = @ + 1]
        /\ sess' = WithRace(p, [s EXCEPT !.pc = "us_updPointer",
                                          !.newVid = nextId.version,
                                          !.writeAfterFail = after])
        /\ UNCHANGED <<failures, hist>>
     \/ /\ e # "none"
        /\ sess' = WithRace(p, [s EXCEPT !.pc = "error", !.failedCall = fc,
                                          !.writeAfterFail = after,
                                          !.err = Err("insert", e)])
        /\ hist' = Dirty(s.sid)
        /\ UNCHANGED <<strategy_versions, nextId, failures>>
     \/ /\ CanFail
        /\ failures' = failures + 1
        /\ sess' = WithRace(p, [s EXCEPT !.pc = "error", !.failedCall = fc,
                                          !.writeAfterFail = after,
                                          !.err = Err("insert", "backend")])
        /\ hist' = Dirty(s.sid)
        /\ UNCHANGED <<strategy_versions, nextId>>
  /\ UNCHANGED <<mockMaps, maps, strategies, strategy_images, bucket, ops>>

\* Mutation: the pointer update of updateStrategy writes the pointer alone.
PointerUpdateKeepsTitle(row, vid, f) ==
  [row EXCEPT !.current_version_id = vid]

\* updateStrategy: the strategy row after the pointer update.
PointerUpdate(row, vid, f) ==
  [row EXCEPT !.current_version_id = vid,
              !.title = f.title, !.description = f.description]

\* update strategies set current_version_id, title, description ... single();
\* the select of the strategy's images that follows has its error ignored and
\* its result unused by onSubmit, so the call returns with this step.
UpdUpdatePointer(p) ==
  /\ sess[p].pc = "us_updPointer"
  /\ LET s == sess[p]
         fc == IF s.failedCall = "none" THEN "updatePointer" ELSE s.failedCall
     IN
     \/ /\ StrategyExists(s.sid)
        /\ strategies' = [strategies EXCEPT ![s.sid] =
                            PointerUpdate(@, s.newVid, s.form)]
        /\ sess' = [sess EXCEPT ![p] =
                      [@ EXCEPT !.pc = "cp_select",
                                !.prevCur = strategies[s.sid].current_version_id,
                                !.wrotePtr = TRUE,
                                !.writeAfterFail = @ \/ s.failedCall # "none",
                                !.versionId = s.newVid]]
        /\ hist' = Returned(s.sid)
        /\ UNCHANGED failures
     \/ /\ ~StrategyExists(s.sid)
        /\ sess' = [sess EXCEPT ![p] =
                      [@ EXCEPT !.pc = "error", !.failedCall = fc,
                                !.writeAfterFail = @ \/ s.failedCall # "none",
                                !.err = Err("updatePointer", "norow")]]
        /\ hist' = Dirty(s.sid)
        /\ UNCHANGED <<strategies, failures>>
     \/ /\ CanFail
        /\ failures' = failures + 1
        /\ sess' = [sess EXCEPT ![p] =
                      [@ EXCEPT !.pc = "error", !.failedCall = fc,
                                !.writeAfterFail = @ \/ s.failedCall # "none",
                                !.err = Err("updatePointer", "backend")]]
        /\ hist' = Dirty(s.sid)
        /\ UNCHANGED strategies
  /\ UNCHANGED <<mockMaps, maps, strategy_versions, strategy_images, bucket, nextId, ops>>

\* -------------------------------------------------- copyImagesToVersion

\* onSubmit: oldVersionId = strategy?.current_version_id of the page state;
\* the select takes the rows of that version, or the rows without a version.
CopySource(s) ==
  IF s.loadedCur # NULL
  THEN { i \in ImagesOf(s.sid) : i.version_id = s.loadedCur }
  ELSE { i \in ImagesOf(s.sid) : i.version_id = NULL }

CopySelect(p) ==
  /\ sess[p].pc = "cp_select"
  /\ LET s == sess[p] IN
     \/ /\ sess' = [sess EXCEPT ![p] =
                      [@ EXCEPT !.copyQueue = CopySource(s),
                                !.copySel = CopySource(s),
                                !.attempted = << >>, !.copied = << >>,
                                !.pc = IF CopySource(s) = {} THEN "d_get"
                                       ELSE "cp_insert"]]
        /\ UNCHANGED failures
     \/ /\ CanFail
        /\ failures' = failures + 1
        /\ Throw(p, "copySelect", "backend")
  /\ UNCHANGED <<mockMaps, maps, strategies, strategy_versions, strategy_images, bucket,
                 nextId, ops, hist>>

\* The row copyImagesToVersion inserts for a source row.
CopyRow(id, sid, toVersionId, image) ==
  ImageRow(id, sid, toVersionId, image.storage_path, image.url,
           image.alt_text, image.position_in_content)

\* Mutation: a failed copy aborts the batch.
AfterCopyErrorAborts(nextPc) == "error"

\* if (copyError) { console.error(...); continue }
AfterCopyError(nextPc) == nextPc

\* One iteration of the copy loop: insert the copy, or log and continue.
\* The select ordered the rows by position_in_content; the next row is one of
\* the remaining rows of least position.
CopyInsert(p) ==
  /\ sess[p].pc = "cp_insert"
  /\ \E image \in MinPosition(sess[p].copyQueue) :
     LET s == sess[p]
         rest == s.copyQueue \ {image}
         nextPc == IF rest = {} THEN "d_get" ELSE "cp_insert"
         row == CopyRow(nextId.image, s.sid, s.versionId, image)
     IN
     \/ /\ ImageInsertError(s.sid, s.versionId) = "none"
        /\ strategy_images' = strategy_images \cup {row}
        /\ nextId' = [nextId EXCEPT !.image = @ + 1]
        /\ sess' = [sess EXCEPT ![p] =
                      [@ EXCEPT !.copyQueue = rest, !.pc = nextPc,
                                !.attempted = Append(@, image),
                                !.copied = Append(@, row)]]
        /\ UNCHANGED failures
     \/ /\ ImageInsertError(s.sid, s.versionId) # "none"
        /\ sess' = [sess EXCEPT ![p] =
                      [@ EXCEPT !.copyQueue = rest,
                                !.pc = AfterCopyError(nextPc),
                                !.attempted = Append(@, image)]]
        /\ UNCHANGED <<strategy_images, nextId, failures>>
     \/ /\ CanFail
        /\ failures' = failures + 1
        /\ sess' = [sess EXCEPT ![p] =
                      [@ EXCEPT !.copyQueue = rest,
                                !.pc = AfterCopyError(nextPc),
                                !.attempted = Append(@, image)]]
        /\ UNCHANGED <<strategy_images, nextId>>
  /\ UNCHANGED <<mockMaps, maps, strategies, strategy_versions, bucket, ops, hist>>

\* ------------------------------------ onSubmit: description updates

OriginalImage(s, id) == CHOOSE i \in s.loadedImages : i.id = id

\* The entries of existingImageDescriptions whose image is still in the page's
\* strategy.images and whose trimmed text differs from the loaded alt_text.
ChangedEntries(s) ==
  LET Changed(e) ==
        \E i \in s.loadedImages :
          i.id = e.id /\ i.alt_text # Trim(e.description)
  IN  SelectSeq(s.descs, Changed)

\* Object.entries iterates in insertion order: first the entries loadStrategy
\* made, in the order getStrategy returned their images, then the entries the
\* user added for images without alt_text, in the order they were added.
EntryOrders(s) ==
  LET ch == ChangedEntries(s)
      Loaded(e) == OriginalImage(s, e.id).alt_text # ""
      Added(e) == OriginalImage(s, e.id).alt_text = ""
      imgs == { OriginalImage(s, e.id) : e \in RangeOf(SelectSeq(ch, Loaded)) }
      EntryOf(i) == CHOOSE e \in RangeOf(ch) : e.id = i.id
  IN  { [k \in 1..Len(o) |-> EntryOf(o[k])] \o SelectSeq(ch, Added) :
          o \in ResultOrders(imgs, s.loadedOrdered) }

Matches(img, orig) ==
  \/ img.storage_path = orig.storage_path
  \/ img.position_in_content = orig.position_in_content

\* newVersionImages.find(...): index of the first match, 0 when there is none.
FindMatch(imgs, orig) ==
  IF \E k \in 1..Len(imgs) : Matches(imgs[k], orig)
  THEN CHOOSE k \in 1..Len(imgs) :
         /\ Matches(imgs[k], orig)
         /\ \A j \in 1..(k - 1) : ~Matches(imgs[j], orig)
  ELSE 0

AfterDescPc(s) == IF Len(s.files) > 0 THEN "up_get" ELSE "done"

\* getStrategy(strategyId) and the filter on version_id = newVersionId.
DescGet(p) ==
  /\ sess[p].pc = "d_get"
  /\ LET s == sess[p] IN
     \/ /\ StrategyExists(s.sid)
        /\ \E r \in getStrategy(s.sid), q \in EntryOrders(s) :
             /\ failures + r.cost <= MaxFailures
             /\ failures' = failures + r.cost
             /\ \E n \in ResultOrders(
                           { i \in r.images : i.version_id = s.versionId },
                           r.ordered) :
                  sess' = [sess EXCEPT ![p] =
                             [@ EXCEPT !.newImgs = n,
                                       !.descQueue = q,
                                       !.pc = IF Len(q) = 0 THEN AfterDescPc(s)
                                              ELSE "d_update"]]
     \/ /\ ~StrategyExists(s.sid)
        /\ Throw(p, "getStrategy", "norow")
        /\ UNCHANGED failures
     \/ /\ failures + 2 <= MaxFailures
        /\ failures' = failures + 2
        /\ Throw(p, "getStrategy", "backend")
  /\ UNCHANGED <<mockMaps, maps, strategies, strategy_versions, strategy_images, bucket,
                 nextId, ops, hist>>

\* updateStrategyImage: update strategy_images set alt_text where id = ...
SetAltText(id, text) ==
  { IF i.id = id THEN [i EXCEPT !.alt_text = text] ELSE i : i \in strategy_images }

\* Mutation: the description always goes to the original row.
DescTargetOriginal(s, e) == OriginalImage(s, e.id).id

\* The row the loop body updates for an entry: the first matching row of the
\* new version when the trimmed text is non-empty, the original row when
\* nothing matches, no row (NULL) otherwise.
DescTarget(s, e) ==
  LET orig == OriginalImage(s, e.id)
      k == FindMatch(s.newImgs, orig)
  IN  IF k = 0 THEN orig.id
      ELSE IF Trim(e.description) # "" THEN s.newImgs[k].id
      ELSE NULL

\* One iteration of the loop over the changed entries.
DescUpdate(p) ==
  /\ sess[p].pc = "d_update"
  /\ LET s == sess[p]
         e == Head(s.descQueue)
         rest == Tail(s.descQueue)
         target == DescTarget(s, e)
         nextPc == IF Len(rest) = 0 THEN AfterDescPc(s) ELSE "d_update"
         Continue == sess' = [sess EXCEPT ![p] =
                                [@ EXCEPT !.descQueue = rest, !.pc = nextPc]]
     IN
     \/ /\ target = NULL
        /\ Continue
        /\ UNCHANGED <<strategy_images, failures>>
     \/ /\ target # NULL
        /\ \E i \in strategy_images : i.id = target
        /\ strategy_images' = SetAltText(target, Trim(e.description))
        /\ Continue
        /\ UNCHANGED failures
     \/ /\ target # NULL
        /\ ~\E i \in strategy_images : i.id = target
        /\ Throw(p, "updateStrategyImage", "norow")
        /\ UNCHANGED <<strategy_images, failures>>
     \/ /\ target # NULL
        /\ CanFail
        /\ failures' = failures + 1
        /\ Throw(p, "updateStrategyImage", "backend")
        /\ UNCHANGED strategy_images
  /\ UNCHANGED <<mockMaps, maps, strategies, strategy_versions, bucket, nextId, ops, hist>>

\* ------------------------------------------------ uploadStrategyImages

\* EditStrategyPage: currentImageCount = images of getStrategy(strategyId).
UploadGet(p) ==
  /\ sess[p].pc = "up_get"
  /\ LET s == sess[p] IN
     \/ /\ StrategyExists(s.sid)
        /\ \E r \in getStrategy(s.sid) :
             /\ failures + r.cost <= MaxFailures
             /\ failures' = failures + r.cost
             /\ sess' = [sess EXCEPT ![p] =
                           [@ EXCEPT !.base = Cardinality(r.images), !.idx = 0,
                                     !.pc = "u_upload"]]
     \/ /\ ~StrategyExists(s.sid)
        /\ Throw(p, "getStrategy", "norow")
        /\ UNCHANGED failures
     \/ /\ failures + 2 <= MaxFailures
        /\ failures' = failures + 2
        /\ Throw(p, "getStrategy", "backend")
  /\ UNCHANGED <<mockMaps, maps, strategies, strategy_versions, strategy_images, bucket,
                 nextId, ops, hist>>

\* Mutation: the catch block logs the error and goes on with the next file.
ThrowUploadContinues(p, c, k) ==
  sess' = [sess EXCEPT ![p] =
             [@ EXCEPT !.idx = @ + 1,
                       !.pc = IF sess[p].idx + 1 < Len(sess[p].uploadedImages)
                              THEN "u_upload" ELSE "done"]]

\* uploadStrategyImages, catch (error): throw new Error(`Failed to upload
\* image: ${file.name}`); c is the call of the loop body that failed.
ThrowUpload(p, c, k) ==
  sess' = [sess EXCEPT ![p] =
             [@ EXCEPT !.pc = "error", !.err = Err(c, k),
                       !.failedFile = sess[p].uploadedImages[sess[p].idx + 1].name]]

\* uploadImage: store the file under a fresh path.
UploadFile(p) ==
  /\ sess[p].pc = "u_upload"
  /\ \/ /\ bucket' = bucket \cup {nextId.path}
        /\ nextId' = [nextId EXCEPT !.path = @ + 1]
        /\ sess' = [sess EXCEPT ![p] =
                      [@ EXCEPT !.pc = "u_createImage", !.path = nextId.path,
                                !.imageUrls = Append(@, UrlOf(nextId.path))]]
        /\ UNCHANGED failures
     \/ /\ CanFail
        /\ failures' = failures + 1
        /\ ThrowUpload(p, "uploadImage", "backend")
        /\ UNCHANGED <<bucket, nextId>>
  /\ UNCHANGED <<mockMaps, maps, strategies, strategy_versions, strategy_images, ops, hist>>

\* NewStrategyPage: customDescription = imageDescriptions[index]?.trim() ||
\* `Gambar strategi ${index + 1} untuk ${strategyId}`; the texts of the model
\* are shorter than the 250 characters truncateString cuts at.
NewPageDescription(d, index, sid) ==
  IF Trim(d) # "" THEN Trim(d)
  ELSE "Gambar strategi " \o ToString(index + 1) \o " untuk " \o ToString(sid)

\* EditStrategyPage: customDescription = imageDescriptions[index]?.trim() ||
\* `Strategy diagram ${currentImageCount + index + 1} for ${strategyId}`
CustomDescription(d, currentImageCount, index, sid) ==
  IF Trim(d) # "" THEN Trim(d)
  ELSE "Strategy diagram " \o ToString(currentImageCount + index + 1)
         \o " for " \o ToString(sid)

\* createStrategyImage(strategyId, path, bucket, url, description, position,
\* versionId) for the file just stored.
UploadCreateImage(p) ==
  /\ sess[p].pc = "u_createImage"
  /\ LET s == sess[p]
         d == s.files[s.idx + 1]
         row == createStrategyImage(
                  nextId.image, s.sid, s.path, UrlOf(s.path),
                  IF s.flow = "create" THEN NewPageDescription(d, s.idx, s.sid)
                  ELSE CustomDescription(d, s.base, s.idx, s.sid),
                  s.base + s.idx, s.versionId)
     IN
     \/ /\ ImageInsertError(s.sid, s.versionId) = "none"
        /\ strategy_images' = strategy_images \cup {row}
        /\ nextId' = [nextId EXCEPT !.image = @ + 1]
        /\ sess' = [sess EXCEPT ![p] =
                      [@ EXCEPT !.idx = @ + 1,
                                !.pc = IF s.idx + 1 < Len(s.files) THEN "u_upload"
                                       ELSE "done"]]
        /\ UNCHANGED failures
     \/ /\ ImageInsertError(s.sid, s.versionId) # "none"
        /\ ThrowUpload(p, "createStrategyImage", "fk")
        /\ UNCHANGED <<strategy_images, nextId, failures>>
     \/ /\ CanFail
        /\ failures' = failures + 1
        /\ ThrowUpload(p, "createStrategyImage", "backend")
        /\ UNCHANGED <<strategy_images, nextId>>
  /\ UNCHANGED <<mockMaps, maps, strategies, strategy_versions, bucket, ops, hist>>

\* ----------------------------------------------- deletes and cascades

StrategiesOfMap(m) == { sid \in DOMAIN strategies : strategies[sid].map_id = m }

\* strategy_versions.strategy_id ... ON DELETE CASCADE: the table after the
\* strategies sids are deleted.
CascadeVersions(sids) == { v \in strategy_versions : v.strategy_id \notin sids }

\* Mutation: image rows are left behind by the cascade.
CascadeImagesNone(sids) == strategy_images

\* strategy_images.strategy_id and .version_id ... ON DELETE CASCADE.
CascadeImages(sids) ==
  { i \in strategy_images :
      /\ i.strategy_id \notin sids
      /\ \A v \in strategy_versions :
           v.id = i.version_id => v.strategy_id \notin sids }

\* A function without the entries of the keys gone.
Without(f, gone) == [k \in (DOMAIN f) \ gone |-> f[k]]

\* deleteStrategy: delete from strategies where id = ...; called by the
\* strategy list pages and the strategy page for a strategy they show.
deleteStrategy ==
  /\ ops < MaxOps
  /\ ops' = ops + 1
  /\ \E id \in DOMAIN strategies :
       \/ /\ maps' = CountDelete(strategies[id].map_id)
          /\ strategies' = Without(strategies, {id})
          /\ strategy_versions' = CascadeVersions({id})
          /\ strategy_images' = CascadeImages({id})
          /\ UNCHANGED failures
       \/ /\ CanFail
          /\ failures' = failures + 1
          /\ UNCHANGED <<maps, strategies, strategy_versions, strategy_images>>
  /\ UNCHANGED <<mockMaps, bucket, nextId, sess, hist>>

\* deleteMap on the configured backend: delete from maps where id = ...; the
\* strategies of the map go with it, and their versions and images.
deleteMap ==
  /\ ops < MaxOps
  /\ ops' = ops + 1
  /\ \E id \in DOMAIN maps :
       \/ /\ maps' = Without(maps, {id})
          /\ strategies' = Without(strategies, StrategiesOfMap(id))
          /\ strategy_versions' = CascadeVersions(StrategiesOfMap(id))
          /\ strategy_images' = CascadeImages(StrategiesOfMap(id))
          /\ UNCHANGED failures
       \/ /\ CanFail
          /\ failures' = failures + 1
          /\ UNCHANGED <<maps, strategies, strategy_versions, strategy_images>>
  /\ UNCHANGED <<mockMaps, bucket, nextId, sess, hist>>

\* update strategies set map_id = ... where id = ...: the statement the
\* trigger's UPDATE branch is written for (no page issues it).
ReparentStrategy ==
  /\ ops < MaxOps
  /\ ops' = ops + 1
  /\ \E id \in DOMAIN strategies, m \in DOMAIN maps :
       /\ maps' = CountUpdate(strategies[id].map_id, m)
       /\ strategies' = [strategies EXCEPT ![id] = [@ EXCEPT !.map_id = m]]
  /\ UNCHANGED <<mockMaps, strategy_versions, strategy_images, bucket, nextId,
                 sess, failures, hist>>

\* The create form is opened anew (pc "idle" is the open, empty form).
NewStrategyPage(p) ==
  /\ AtRest(sess[p])
  /\ sess[p].pc # "idle"
  /\ sess' = [sess EXCEPT ![p] = IdleSession]
  /\ UNCHANGED <<mockMaps, maps, strategies, strategy_versions, strategy_images,
                 bucket, nextId, ops, failures, hist>>

\* ------------------------------------ NewStrategyPage: the form's files

\* file.type.startsWith('image/') on the MIME types of the model.
StartsWithImage(t) == t \in {"image/png"}

\* Mutation: the size limit is exclusive.
ValidFileBelowLimit(file) ==
  StartsWithImage(file.type) /\ file.size < MaxFileSize

\* The filter of handleImageSelect.
ValidFile(file) == StartsWithImage(file.type) /\ file.size <= MaxFileSize

validFiles(files) == SelectSeq(files, ValidFile)

\* prev.filter((_, i) => i !== index), index counted from 0.
FilterIndex(prev, index) ==
  [k \in 1..(Len(prev) - (IF index < Len(prev) THEN 1 ELSE 0)) |->
     IF k <= index THEN prev[k] ELSE prev[k + 1]]

\* reader.result of the reader of a file: the data URL of its content, which
\* the file name stands for.
ReaderResult(file) == file.name

\* reader.onloadend of one of the readers started by handleImageSelect: the
\* readers finish in any order; the result is appended to imagePreviews.
onloadend(p) ==
  /\ sess[p].pc \in {"idle", "e_loaded"}
  /\ \E k \in 1..Len(sess[p].readers) :
       sess' = [sess EXCEPT ![p] =
         [@ EXCEPT !.imagePreviews = Append(@, ReaderResult(sess[p].readers[k])),
                   !.readers = FilterIndex(@, k - 1)]]
  /\ UNCHANGED <<mockMaps, maps, strategies, strategy_versions, strategy_images,
                 bucket, nextId, ops, failures, hist>>

\* removeImage(index), from the button of the index-th preview shown.
removeImage(p) ==
  /\ sess[p].pc \in {"idle", "e_loaded"}
  /\ ops < MaxOps
  /\ ops' = ops + 1
  /\ \E index \in 0..(Len(sess[p].imagePreviews) - 1) :
       sess' = [sess EXCEPT ![p] =
         [@ EXCEPT !.uploadedImages = FilterIndex(@, index),
                   !.imagePreviews = FilterIndex(@, index),
                   !.files = FilterIndex(@, index)]]
  /\ UNCHANGED <<mockMaps, maps, strategies, strategy_versions, strategy_images,
                 bucket, nextId, failures, hist>>

\* e.target.files of a change event: some files of the folder.
Selections ==
  { SelectSeq(Folder, LAMBDA f : f \in S) : S \in SUBSET RangeOf(Folder) \ {{}} }

\* handleImageSelect of the create form (pc "idle": the open, empty form) and
\* of the edit form: the valid files of the selection are appended to
\* uploadedImages, one empty entry each to imageDescriptions; setError when a
\* file was rejected.
handleImageSelect(p) ==
  /\ sess[p].pc \in {"idle", "e_loaded"}
  /\ ops < MaxOps
  /\ ops' = ops + 1
  /\ \E files \in Selections :
       /\ Len(sess[p].uploadedImages) + Len(validFiles(files))
            <= Len(validFiles(Folder))
       /\ sess' = [sess EXCEPT ![p] =
             [@ EXCEPT !.selected = files,
                       !.uploadedImages = @ \o validFiles(files),
                       !.readers = @ \o validFiles(files),
                       !.files = @ \o [k \in 1..Len(validFiles(files)) |-> ""],
                       !.selectError =
                          @ \/ Len(validFiles(files)) # Len(files)]]
  /\ UNCHANGED <<mockMaps, maps, strategies, strategy_versions, strategy_images,
                 bucket, nextId, failures, hist>>

\* NewStrategyPage.onSubmit: setError(null), then createStrategy with the
\* form data; the map is one the form's select lists.
NewStrategyOnSubmit(p) ==
  /\ sess[p].pc = "idle"
  /\ ops < MaxOps
  /\ \E m \in DOMAIN maps, f \in CreateForms :
       sess' = [sess EXCEPT ![p] =
                  [@ EXCEPT !.pc = "c_insStrategy", !.flow = "create",
                            !.map = m, !.form = f, !.selectError = FALSE]]
  /\ ops' = ops + 1
  /\ UNCHANGED <<mockMaps, maps, strategies, strategy_versions, strategy_images,
                 bucket, nextId, failures, hist>>

\* --------------------------------------------------- specifications

\* Versioning: the create form without files and updateStrategy as called by
\* the edit form, two sessions, calls interleaved and failing.
Next ==
  \E p \in Sessions :
    \/ (StartCreate(p) /\ sess'[p].files = << >>)
    \/ CreateInsertStrategy(p)
    \/ CreateInsertVersion(p)
    \/ CreateUpdatePointer(p)
    \/ CreateFetchVersion(p)
    \/ LoadStrategy(p)
    \/ Submit(p)
    \/ UpdReadCurrent(p)
    \/ UpdReadNumber(p)
    \/ UpdInsertVersion(p)
    \/ UpdUpdatePointer(p)
    \/ CopySelect(p)
    \/ DescGet(p)

Spec == Init /\ [][Next]_vars

\* The database after NewStrategyPage.onSubmit created strategy 1 on map 1
\* with n files, every call succeeding; the tabs show nothing yet.
CreatedDatabase(n) ==
  /\ maps = [m \in MapIds |-> [strategy_count |-> IF m = 1 THEN 1 ELSE 0]]
  /\ strategies = (1 :> [map_id |-> 1, title |-> "t1", description |-> "d1",
                         current_version_id |-> 1])
  /\ strategy_versions =
       { VersionRow(1, 1, 1, [title |-> "t1", description |-> "d1"],
                    "Initial version") }
  /\ strategy_images =
       { createStrategyImage(k, 1, k, UrlOf(k),
                             NewPageDescription("", k - 1, 1), k - 1, 1) :
           k \in 1..n }
  /\ bucket = 1..n
  /\ nextId = [strategy |-> 2, version |-> 2, image |-> n + 1, path |-> n + 1]
  /\ sess = [p \in Sessions |-> IdleSession]
  /\ failures = 0
  /\ hist = (1 :> [edits |-> 1, clean |-> TRUE])
  /\ mockMaps = SeededMaps

\* The creation counted as the first user operation of the behaviour.
Created(n) == CreatedDatabase(n) /\ ops = 1

\* Every step of the edit form.
EditStep(p) ==
  \/ LoadStrategy(p)
  \/ updateExistingImageDescription(p)
  \/ deleteExistingImage(p)
  \/ Submit(p)
  \/ UpdReadCurrent(p)
  \/ UpdReadNumber(p)
  \/ UpdInsertVersion(p)
  \/ UpdUpdatePointer(p)
  \/ CopySelect(p)
  \/ CopyInsert(p)
  \/ DescGet(p)
  \/ DescUpdate(p)
  \/ SelectFiles(p)
  \/ UploadGet(p)
  \/ UploadFile(p)
  \/ UploadCreateImage(p)

\* No submission of another tab is under way.
Alone(p) == \A q \in Sessions \ {p} : AtRest(sess[q])

\* Edit sessions of two tabs on a strategy created with one image: the tabs
\* load independently, their submissions do not overlap.
InitEdit == Created(1)
NextEdit ==
  \E p \in Sessions :
    \/ Alone(p) /\ LoadStrategy(p)
    \/ Alone(p) /\ updateExistingImageDescription(p)
    \/ Alone(p) /\ deleteExistingImage(p)
    \/ Alone(p) /\ SelectFiles(p)
    \/ Alone(p) /\ Submit(p)
    \/ Alone(p) /\ UpdReadCurrent(p)
    \/ Alone(p) /\ UpdReadNumber(p)
    \/ Alone(p) /\ UpdInsertVersion(p)
    \/ Alone(p) /\ UpdUpdatePointer(p)
    \/ Alone(p) /\ CopySelect(p)
    \/ Alone(p) /\ CopyInsert(p)
    \/ Alone(p) /\ DescGet(p)
    \/ Alone(p) /\ DescUpdate(p)
    \/ Alone(p) /\ UploadGet(p)
    \/ Alone(p) /\ UploadFile(p)
    \/ Alone(p) /\ UploadCreateImage(p)
SpecEdit == InitEdit /\ [][NextEdit]_vars

\* Edit sessions of one tab on a strategy created with two images, backend
\* calls failing.
InitCopy == Created(2)
NextCopy == EditStep("A")
SpecCopy == InitCopy /\ [][NextCopy]_vars

\* One tab: a second strategy is created with files, then strategies are
\* edited with files, backend calls failing.
NextUpload ==
  \/ handleImageSelect("A")
  \/ NewStrategyOnSubmit("A")
  \/ CreateInsertStrategy("A")
  \/ CreateInsertVersion("A")
  \/ CreateUpdatePointer("A")
  \/ CreateFetchVersion("A")
  \/ LoadStrategy("A")
  \/ Submit("A")
  \/ UpdReadCurrent("A")
  \/ UpdReadNumber("A")
  \/ UpdInsertVersion("A")
  \/ UpdUpdatePointer("A")
  \/ CopySelect("A")
  \/ CopyInsert("A")
  \/ DescGet("A")
  \/ UploadGet("A")
  \/ UploadFile("A")
  \/ UploadCreateImage("A")
InitUpload == CreatedDatabase(1) /\ ops = 0
SpecUpload == InitUpload /\ [][NextUpload]_vars

\* One tab: files are selected on the create form and on the edit form of
\* strategy 1, their readers finish, and previews are removed.
NextPreview ==
  \/ handleImageSelect("A")
  \/ onloadend("A")
  \/ removeImage("A")
  \/ LoadStrategy("A")
SpecPreview == InitUpload /\ [][NextPreview]_vars

\* Edit sessions of one tab on a strategy created with three images (at the
\* positions 0, 1, 2), backend calls failing.
InitPositions == CreatedDatabase(3) /\ ops = 0
NextPositions == EditStep("A")
SpecPositions == InitPositions /\ [][NextPositions]_vars

\* ------------------------------------------------------ read operations

\* A property the returned object does not have.
undefined == "undefined"

\* JavaScript a || b on strings: undefined and "" are falsy.
Or(a, b) == IF a \in {undefined, ""} THEN b ELSE a

\* from('strategy_versions').select('*').eq('id', vid).single(): data is the
\* row, or null when the call fails or finds no row.  The result is kept as
\* a set, {} for null.
SingleVersion(vid, versionError) ==
  IF versionError THEN {} ELSE { v \in strategy_versions : v.id = vid }

\* current_version?.title
VersionTitle(cv) == IF cv = {} THEN undefined ELSE (CHOOSE v \in cv : TRUE).title
VersionDescription(cv) ==
  IF cv = {} THEN undefined ELSE (CHOOSE v \in cv : TRUE).description

\* The manual fetch of the current version is made when the pointer is set.
CurrentVersionOf(sid, versionError) ==
  IF strategies[sid].current_version_id # NULL
  THEN SingleVersion(strategies[sid].current_version_id, versionError)
  ELSE {}

\* get_strategy_with_version / an element of get_strategies_with_versions:
\* the json object has no title and no description of its own.
get_strategy_with_version(sid) ==
  [ id |-> sid, title |-> undefined, description |-> undefined,
    current_version |-> SingleVersion(strategies[sid].current_version_id, FALSE),
    images |-> ImagesOf(sid) ]

\* getStrategy, fallback: select('*, map, images'), then the current version.
getStrategyFallback(sid, versionError) ==
  LET cv == CurrentVersionOf(sid, versionError) IN
  [ id |-> sid,
    title |-> Or(strategies[sid].title, Or(VersionTitle(cv), "")),
    description |-> Or(strategies[sid].description, Or(VersionDescription(cv), "")),
    current_version |-> cv,
    images |-> ImagesOf(sid) ]

\* getStrategyWithCache: the select names no title and no description.
getStrategyWithCacheData(sid, versionError) ==
  LET cv == CurrentVersionOf(sid, versionError) IN
  [ id |-> sid,
    title |-> Or(undefined, Or(VersionTitle(cv), "")),
    description |-> Or(undefined, Or(VersionDescription(cv), "")),
    current_version |-> cv,
    images |-> ImagesOf(sid) ]

\* getStrategies, fallback: { ...strategy, current_version: versionData }.
getStrategiesFallback(sid, versionError) ==
  [ id |-> sid, title |-> strategies[sid].title,
    description |-> strategies[sid].description,
    current_version |-> CurrentVersionOf(sid, versionError),
    images |-> ImagesOf(sid) ]

\* searchStrategies: an element of the result.
searchStrategiesData(sid, versionError) ==
  LET cv == CurrentVersionOf(sid, versionError) IN
  [ id |-> sid,
    title |-> Or(strategies[sid].title, Or(VersionTitle(cv), "")),
    description |-> Or(strategies[sid].description, Or(VersionDescription(cv), "")),
    current_version |-> cv,
    images |-> ImagesOf(sid) ]

\* Search texts.  The forms' titles and descriptions are distinct strings of
\* one length and "x" occurs in none, so ilike %query% is equality here.
Queries == {"t1", "x"}
Ilike(sid, query) ==
  strategies[sid].title = query \/ strategies[sid].description = query

\* The strategies a call may lose the version lookup of: those with a pointer.
WithPointer(S) == { sid \in S : strategies[sid].current_version_id # NULL }

\* What a call left to its caller: the rows it resolved to, or a throw;
\* versionError says that a lookup of a current version failed in the call.
Resolved(c, rows, versionError) ==
  [ call |-> c, threw |-> FALSE, versionError |-> versionError, data |-> rows ]
Thrown(c) == [ call |-> c, threw |-> TRUE, versionError |-> FALSE, data |-> {} ]

Return(p, r) == sess' = [sess EXCEPT ![p] = [@ EXCEPT !.ret = r]]

\* getStrategy(id) of a strategy that exists.
ReadGetStrategy(p) ==
  /\ \E sid \in DOMAIN strategies :
       \/ /\ Return(p, Resolved("getStrategy", {get_strategy_with_version(sid)}, FALSE))
          /\ UNCHANGED failures
       \/ /\ failures + 1 <= MaxFailures
          /\ failures' = failures + 1
          /\ Return(p, Resolved("getStrategy", {getStrategyFallback(sid, FALSE)}, FALSE))
       \/ /\ failures + 2 <= MaxFailures
          /\ failures' = failures + 2
          /\ \/ Return(p, Thrown("getStrategy"))
             \/ /\ sid \in WithPointer({sid})
                /\ Return(p, Resolved("getStrategy", {getStrategyFallback(sid, TRUE)}, TRUE))
  /\ UNCHANGED <<mockMaps, maps, strategies, strategy_versions, strategy_images,
                 bucket, nextId, ops, hist>>

\* Ids that name no strategy.
MissingIds == (1..nextId.strategy) \ DOMAIN strategies

\* getStrategy(id) of an id that names no strategy.  The function
\* get_strategy_with_version selects no row and returns SQL NULL: rpcData is
\* null and the read of strategy.id for the debug output throws a TypeError.
\* If the rpc fails, .single() on no row is an error, which is thrown.
ThrownError(c, id, name) ==
  [ call |-> c, threw |-> TRUE, versionError |-> FALSE, data |-> {},
    id |-> id, error |-> name ]

ReadGetStrategyMissing(p) ==
  /\ \E id \in MissingIds :
       \/ /\ Return(p, ThrownError("getStrategy", id, "TypeError"))
          /\ UNCHANGED failures
       \/ /\ failures + 1 <= MaxFailures
          /\ failures' = failures + 1
          /\ Return(p, ThrownError("getStrategy", id, "PGRST116"))
  /\ UNCHANGED <<mockMaps, maps, strategies, strategy_versions, strategy_images,
                 bucket, nextId, ops, hist>>

\* getStrategyWithCache(id) of a strategy that exists.
ReadGetStrategyWithCache(p) ==
  /\ \E sid \in DOMAIN strategies :
       \/ /\ Return(p, Resolved("getStrategyWithCache",
                                {getStrategyWithCacheData(sid, FALSE)}, FALSE))
          /\ UNCHANGED failures
       \/ /\ CanFail
          /\ failures' = failures + 1
          /\ \/ Return(p, Thrown("getStrategyWithCache"))
             \/ /\ sid \in WithPointer({sid})
                /\ Return(p, Resolved("getStrategyWithCache",
                                      {getStrategyWithCacheData(sid, TRUE)}, TRUE))
  /\ UNCHANGED <<mockMaps, maps, strategies, strategy_versions, strategy_images,
                 bucket, nextId, ops, hist>>

\* getStrategies(mapId?): the aggregated call, or the fallback with one
\* lookup per strategy, the lookups of F failing.
ReadGetStrategies(p) ==
  /\ \E mapId \in {NULL} \cup DOMAIN maps :
       LET S == IF mapId = NULL THEN DOMAIN strategies ELSE StrategiesOfMap(mapId) IN
       \/ /\ Return(p, Resolved("getStrategies",
                                { get_strategy_with_version(sid) : sid \in S }, FALSE))
          /\ UNCHANGED failures
       \/ \E F \in SUBSET WithPointer(S) :
            /\ failures + 1 + Cardinality(F) <= MaxFailures
            /\ failures' = failures + 1 + Cardinality(F)
            /\ Return(p, Resolved("getStrategies",
                   { getStrategiesFallback(sid, sid \in F) : sid \in S }, F # {}))
       \/ /\ failures + 2 <= MaxFailures
          /\ failures' = failures + 2
          /\ Return(p, Thrown("getStrategies"))
  /\ UNCHANGED <<mockMaps, maps, strategies, strategy_versions, strategy_images,
                 bucket, nextId, ops, hist>>

\* searchStrategies(query): one select, then one lookup per strategy found.
ReadSearchStrategies(p) ==
  /\ \E query \in Queries :
       LET S == { sid \in DOMAIN strategies : Ilike(sid, query) } IN
       \/ \E F \in SUBSET WithPointer(S) :
            /\ failures + Cardinality(F) <= MaxFailures
            /\ failures' = failures + Cardinality(F)
            /\ Return(p, Resolved("searchStrategies",
                   { searchStrategiesData(sid, sid \in F) : sid \in S }, F # {}))
       \/ /\ CanFail
          /\ failures' = failures + 1
          /\ Return(p, Thrown("searchStrategies"))
  /\ UNCHANGED <<mockMaps, maps, strategies, strategy_versions, strategy_images,
                 bucket, nextId, ops, hist>>

\* ------------------------------------------------- StrategyDetailPage

\* StrategyDetailPage: the images shown for a strategy as getStrategy returns
\* it now.  currentVersionId is strategy.current_version?.id; it is undefined
\* without a current version, which no row's version_id equals.
currentVersionImages(sid) ==
  LET cv == SingleVersion(strategies[sid].current_version_id, FALSE)
      matches(image) == \E v \in cv : image.version_id = v.id
  IN  { image \in ImagesOf(sid) :
          \/ matches(image)
          \/ image.version_id = NULL
          \/ ~\E img \in ImagesOf(sid) : matches(img) }

\* The answer of a getStrategy call that threw.
RequestFailed == 0 - 1

\* loadStrategy has no guard: it is called whatever is under way.
MayLoad(d) == TRUE

\* loadStrategy(forceRefresh) up to its await: the flags are set and
\* getStrategy(strategyId) is issued; the backend reads the strategy as it is
\* now (its current_version_id stands for the data returned), or fails.
IssueLoad(p, forceRefresh) ==
  LET d == sess[p].detail IN
  /\ MayLoad(d)
  /\ \E data \in {strategies[sess[p].sid].current_version_id, RequestFailed} :
       /\ data = RequestFailed => CanFail
       /\ failures' = IF data = RequestFailed THEN failures + 1 ELSE failures
       /\ sess' = [sess EXCEPT ![p] = [@ EXCEPT !.detail =
             [d EXCEPT !.loading = IF forceRefresh THEN @ ELSE TRUE,
                       !.refreshing = IF forceRefresh THEN TRUE ELSE @,
                       !.issued = @ + 1,
                       !.inflight = @ \cup {[n |-> d.issued + 1, data |-> data]}]]]

\* useEffect(() => { loadStrategy() }, [strategyId]): the page is opened for
\* a strategy.
StrategyDetailPage(p) ==
  /\ sess[p].pc = "idle"
  /\ \E sid \in DOMAIN strategies :
       LET d == NoDetail IN
       \E data \in {strategies[sid].current_version_id, RequestFailed} :
         /\ data = RequestFailed => CanFail
         /\ failures' = IF data = RequestFailed THEN failures + 1 ELSE failures
         /\ sess' = [sess EXCEPT ![p] =
               [@ EXCEPT !.pc = "detail", !.sid = sid,
                         !.detail = [d EXCEPT !.issued = 1,
                                       !.inflight = {[n |-> 1, data |-> data]}]]]
  /\ UNCHANGED <<mockMaps, maps, strategies, strategy_versions, strategy_images,
                 bucket, nextId, ops, hist>>

\* handleVisibilityChange: if (!document.hidden) loadStrategy()
handleVisibilityChange(p) ==
  /\ sess[p].pc = "detail"
  /\ StrategyExists(sess[p].sid)
  /\ ops < MaxOps
  /\ ops' = ops + 1
  /\ IssueLoad(p, FALSE)
  /\ UNCHANGED <<mockMaps, maps, strategies, strategy_versions, strategy_images,
                 bucket, nextId, hist>>

\* handleRefresh: loadStrategy(true); the button is rendered when the page
\* shows a strategy (loading is false) and is disabled while refreshing.
handleRefresh(p) ==
  /\ sess[p].pc = "detail"
  /\ StrategyExists(sess[p].sid)
  /\ ~sess[p].detail.loading /\ ~sess[p].detail.refreshing
  /\ sess[p].detail.strategy # NULL
  /\ ops < MaxOps
  /\ ops' = ops + 1
  /\ IssueLoad(p, TRUE)
  /\ UNCHANGED <<mockMaps, maps, strategies, strategy_versions, strategy_images,
                 bucket, nextId, hist>>

\* loadStrategy after its await: the answer of one of the requests under way
\* arrives (setStrategy(data), or the catch block), then the finally block.
loadStrategyResume(p) ==
  /\ sess[p].pc = "detail"
  /\ \E r \in sess[p].detail.inflight :
       sess' = [sess EXCEPT ![p] = [@ EXCEPT !.detail =
         [@ EXCEPT !.inflight = @ \ {r},
                   !.strategy = IF r.data = RequestFailed THEN @ ELSE r.data,
                   !.from = IF r.data = RequestFailed THEN @ ELSE r.n,
                   !.loading = FALSE, !.refreshing = FALSE]]]
  /\ UNCHANGED <<mockMaps, maps, strategies, strategy_versions, strategy_images,
                 bucket, nextId, ops, failures, hist>>

\* ------------------------------------------- the unconfigured backend

\* What a call of the library left to its caller when supabase is null:
\* kind is "error" (thrown, data holds the message), "list", "row", "null"
\* or "void".
Outcome(c, kind, data) ==
  [ call |-> c, threw |-> kind = "error", versionError |-> FALSE,
    data |-> data, kind |-> kind ]

ConfigurationErrors ==
  { "Strategy creation requires Supabase configuration",
    "Strategy updates require Supabase configuration",
    "Strategy image creation requires Supabase configuration",
    "Image copying requires Supabase configuration",
    "Strategy image update requires Supabase configuration",
    "Supabase client not initialized. Please check your environment variables." }

\* Mutation: every operation refuses with a configuration error.
UnconfiguredRefuses(c) ==
  Outcome(c, "error", {"Strategy updates require Supabase configuration"})

\* The if (!supabase) branch of each operation on strategies, strategy
\* images and stored files.
Unconfigured(c) ==
  CASE c = "createStrategy" ->
         Outcome(c, "error", {"Strategy creation requires Supabase configuration"})
    [] c = "updateStrategy" ->
         Outcome(c, "error", {"Strategy updates require Supabase configuration"})
    [] c = "createStrategyImage" ->
         Outcome(c, "error", {"Strategy image creation requires Supabase configuration"})
    [] c = "copyImagesToVersion" ->
         Outcome(c, "error", {"Image copying requires Supabase configuration"})
    [] c = "updateStrategyImage" ->
         Outcome(c, "error", {"Strategy image update requires Supabase configuration"})
    [] c \in {"uploadImage", "deleteImage"} ->
         Outcome(c, "error",
           {"Supabase client not initialized. Please check your environment variables."})
    [] c \in {"getStrategies", "searchStrategies", "getStrategyVersions"} ->
         Outcome(c, "list", << >>)
    [] c \in {"getStrategy", "getStrategyWithCache"} -> Outcome(c, "null", {})
    [] c \in {"deleteStrategy", "deleteStrategyImage"} -> Outcome(c, "void", {})

UnconfiguredCalls ==
  { "createStrategy", "updateStrategy", "createStrategyImage",
    "copyImagesToVersion", "updateStrategyImage", "uploadImage", "deleteImage",
    "getStrategies", "searchStrategies", "getStrategyVersions", "getStrategy",
    "getStrategyWithCache", "deleteStrategy", "deleteStrategyImage" }

\* One of these operations is called; whatever its arguments, it ends in its
\* first statement.
UnconfiguredCall(p) ==
  /\ \E c \in UnconfiguredCalls : Return(p, Unconfigured(c))
  /\ UNCHANGED <<mockMaps, maps, strategies, strategy_versions, strategy_images,
                 bucket, nextId, ops, failures, hist>>

\* Inputs of the map forms; 'Desert Storm' is the name of a seeded map.
MapNames == {"Desert Storm", "Alpha"}
CreateMapForms ==
  { [name |-> n, description |-> d] : n \in MapNames, d \in {undefined, "d"} }
UpdateMapForms == { [name |-> n] : n \in MapNames } \cup { [description |-> "e"] }

\* Date.now() at the calls of createMap: milliseconds, not going back; two
\* calls may fall in one millisecond.
Timestamps == {3, 4}
Now == { t \in Timestamps : \A k \in 1..Len(mockMaps) : mockMaps[k].id <= t }

\* Ids passed to getMap, updateMap and deleteMap; 9 is the id of no map.
MapIdInputs == {1, 2, 9} \cup Timestamps

\* mockMaps.findIndex(map => map.id === id): 0 stands for -1.
findIndex(id) ==
  IF \E k \in 1..Len(mockMaps) : mockMaps[k].id = id
  THEN CHOOSE k \in 1..Len(mockMaps) :
         /\ mockMaps[k].id = id
         /\ \A j \in 1..(k - 1) : mockMaps[j].id # id
  ELSE 0

\* { ...map, ...mapData }
Spread(map, mapData) ==
  [ f \in DOMAIN map |-> IF f \in DOMAIN mapData THEN mapData[f] ELSE map[f] ]

\* getMaps(), unconfigured.
getMaps(p) ==
  /\ Return(p, Outcome("getMaps", "list", mockMaps))
  /\ UNCHANGED <<mockMaps, maps, strategies, strategy_versions, strategy_images,
                 bucket, nextId, ops, failures, hist>>

\* getMap(id), unconfigured.
getMap(p) ==
  /\ \E id \in MapIdInputs :
       IF findIndex(id) # 0
       THEN Return(p, Outcome("getMap", "row", {mockMaps[findIndex(id)]}))
       ELSE Return(p, Outcome("getMap", "null", {}))
  /\ UNCHANGED <<mockMaps, maps, strategies, strategy_versions, strategy_images,
                 bucket, nextId, ops, failures, hist>>

\* createMap(mapData), unconfigured.
createMapMock(p) ==
  /\ ops < MaxOps
  /\ ops' = ops + 1
  /\ \E mapData \in CreateMapForms, now \in Now :
       LET newMap == MockMap(now, mapData.name, Or(mapData.description, "")) IN
       /\ mockMaps' = Append(mockMaps, newMap)
       /\ Return(p, Outcome("createMap", "row", {newMap}))
  /\ UNCHANGED <<maps, strategies, strategy_versions, strategy_images, bucket,
                 nextId, failures, hist>>

\* updateMap(id, mapData), unconfigured.
updateMapMock(p) ==
  /\ ops < MaxOps
  /\ ops' = ops + 1
  /\ \E id \in MapIdInputs, mapData \in UpdateMapForms :
       IF findIndex(id) = 0
       THEN /\ Return(p, Outcome("updateMap", "error", {"Map not found"}))
            /\ UNCHANGED mockMaps
       ELSE /\ mockMaps' = [mockMaps EXCEPT ![findIndex(id)] = Spread(@, mapData)]
            /\ Return(p, Outcome("updateMap", "row",
                                 {Spread(mockMaps[findIndex(id)], mapData)}))
  /\ UNCHANGED <<maps, strategies, strategy_versions, strategy_images, bucket,
                 nextId, failures, hist>>

\* deleteMap(id), unconfigured: splice(index, 1).
deleteMapMock(p) ==
  /\ ops < MaxOps
  /\ ops' = ops + 1
  /\ \E id \in MapIdInputs :
       /\ mockMaps' =
            IF findIndex(id) # 0
            THEN [k \in 1..(Len(mockMaps) - 1) |->
                    IF k < findIndex(id) THEN mockMaps[k] ELSE mockMaps[k + 1]]
            ELSE mockMaps
       /\ Return(p, Outcome("deleteMap", "void", {}))
  /\ UNCHANGED <<maps, strategies, strategy_versions, strategy_images, bucket,
                 nextId, failures, hist>>

\* Two maps, strategy 1 with one image on map 1: strategies are created on
\* either map in one tab, moved between the maps and deleted, maps are
\* deleted, backend calls failing.
InitAdmin ==
  /\ maps = (1 :> [strategy_count |-> 1]) @@ (2 :> [strategy_count |-> 0])
  /\ strategies = (1 :> [map_id |-> 1, title |-> "t1", description |-> "d1",
                         current_version_id |-> 1])
  /\ strategy_versions =
       { VersionRow(1, 1, 1, [title |-> "t1", description |-> "d1"],
                    "Initial version") }
  /\ strategy_images =
       { createStrategyImage(1, 1, 1, UrlOf(1), NewPageDescription("", 0, 1),
                             0, 1) }
  /\ bucket = {1}
  /\ nextId = [strategy |-> 2, version |-> 2, image |-> 2, path |-> 2]
  /\ sess = [p \in Sessions |-> IdleSession]
  /\ ops = 0
  /\ failures = 0
  /\ hist = (1 :> [edits |-> 1, clean |-> TRUE])
  /\ mockMaps = SeededMaps
NextAdmin ==
  \/ NewStrategyPage("A")
  \/ handleImageSelect("A")
  \/ NewStrategyOnSubmit("A")
  \/ CreateInsertStrategy("A")
  \/ CreateInsertVersion("A")
  \/ CreateUpdatePointer("A")
  \/ CreateFetchVersion("A")
  \/ UploadFile("A")
  \/ UploadCreateImage("A")
  \/ deleteStrategy
  \/ deleteMap
  \/ ReparentStrategy
SpecAdmin == InitAdmin /\ [][NextAdmin]_vars

\* Strategy 1 exists with one image.  Tab A creates and edits strategies,
\* calls failing; the read operations run in tab B between A's submissions.
NextRead ==
  \/ (StartCreate("A") /\ sess'["A"].files = << >>)
  \/ CreateInsertStrategy("A")
  \/ CreateInsertVersion("A")
  \/ CreateUpdatePointer("A")
  \/ CreateFetchVersion("A")
  \/ LoadStrategy("A")
  \/ Submit("A")
  \/ UpdReadCurrent("A")
  \/ UpdReadNumber("A")
  \/ UpdInsertVersion("A")
  \/ UpdUpdatePointer("A")
  \/ CopySelect("A")
  \/ DescGet("A")
  \/ (AtRest(sess["A"]) /\ ReadGetStrategy("B"))
  \/ (AtRest(sess["A"]) /\ ReadGetStrategyWithCache("B"))
  \/ (AtRest(sess["A"]) /\ ReadGetStrategies("B"))
  \/ (AtRest(sess["A"]) /\ ReadSearchStrategies("B"))
  \/ (AtRest(sess["A"]) /\ ReadGetStrategyMissing("B"))
SpecRead == InitUpload /\ [][NextRead]_vars

\* Strategy 1 exists.  Tab A edits it; tab B shows its detail page, is hidden
\* and shown again, and is refreshed.
NextDetail ==
  \/ EditStep("A")
  \/ StrategyDetailPage("B")
  \/ handleVisibilityChange("B")
  \/ handleRefresh("B")
  \/ loadStrategyResume("B")
SpecDetail == InitUpload /\ [][NextDetail]_vars

\* The library without NEXT_PUBLIC_SUPABASE_URL / NEXT_PUBLIC_SUPABASE_ANON_KEY:
\* supabase is null, maps live in mockMaps, the tables are never reached.
NextMock ==
  \/ getMaps("A")
  \/ getMap("A")
  \/ createMapMock("A")
  \/ updateMapMock("A")
  \/ deleteMapMock("A")
  \/ UnconfiguredCall("A")
SpecMock == Init /\ [][NextMock]_vars

\* ----------------------------------------------------------- properties

Quiet(sid) ==
  \A q \in Sessions :
    sess[q].sid = sid => ~(InCreateCall(sess[q]) \/ InUpdateCall(sess[q]))

NumbersOf(sid) == { v.version_number : v \in VersionsOf(sid) }

\* C1: after createStrategy and k sequential updateStrategy calls on a
\* strategy, none of them failing (N = k + 1 calls returned), the strategy has
\* exactly N version rows, numbered 1..N, and current_version_id is the id of
\* the row numbered N.
C1_SequentialEdits ==
  \A sid \in DOMAIN strategies :
    (hist[sid].clean /\ hist[sid].edits >= 1 /\ Quiet(sid)) =>
      LET N == hist[sid].edits IN
      /\ Cardinality(VersionsOf(sid)) = N
      /\ NumbersOf(sid) = 1..N
      /\ \E v \in VersionsOf(sid) :
           v.version_number = N /\ strategies[sid].current_version_id = v.id

C1_Witness ==
  \E sid \in DOMAIN strategies :
    /\ hist[sid].clean /\ hist[sid].edits >= 3 /\ Quiet(sid)
    /\ Cardinality(VersionsOf(sid)) = 3

\* Numbers are unique per strategy and a non-null pointer references a version
\* row of its strategy.
C2_State ==
  /\ \A v, w \in strategy_versions :
       (v.strategy_id = w.strategy_id /\ v.version_number = w.version_number)
         => v = w
  /\ \A sid \in DOMAIN strategies :
       strategies[sid].current_version_id # NULL =>
         \E v \in strategy_versions :
           v.id = strategies[sid].current_version_id /\ v.strategy_id = sid

\* A row inserted by the step has a number above every number of its strategy.
C2_Insert ==
  \A v \in strategy_versions' \ strategy_versions :
    \A w \in strategy_versions :
      w.strategy_id = v.strategy_id => v.version_number > w.version_number

\* C2: under any interleaving of createStrategy and updateStrategy and any
\* backend failure, no two version rows of a strategy share a version_number,
\* a newly inserted row has a number greater than every number the strategy
\* already had, and a non-null current_version_id is the id of a version row
\* of that strategy.
C2_UniqueIncreasing == [](C2_State) /\ [][C2_Insert]_vars

C2_Witness ==
  \E sid \in DOMAIN strategies :
    /\ ~hist[sid].clean
    /\ Cardinality(VersionsOf(sid)) >= 2
    /\ \E p \in Sessions : sess[p].sid = sid /\ sess[p].err.kind = "unique"

\* Two calls that raced on one (strategy, number) and whose inserts were both
\* answered by the database (neither request failed on the way).
RacedPair(p, q) ==
  /\ p # q
  /\ sess[p].raced /\ sess[q].raced
  /\ sess[p].sid = sess[q].sid /\ sess[p].next = sess[q].next
  /\ sess[p].pc # "us_insVersion" /\ sess[q].pc # "us_insVersion"
  /\ sess[p].err # Err("insert", "backend")
  /\ sess[q].err # Err("insert", "backend")

Inserted(p) == sess[p].newVid # NULL

\* The call of p was rejected by the unique constraint, threw, inserted no
\* row and wrote no pointer.
Rejected(p) ==
  /\ sess[p].pc = "error"
  /\ sess[p].err = Err("insert", "unique")
  /\ sess[p].newVid = NULL
  /\ ~sess[p].wrotePtr

C5_State ==
  \A sid \in DOMAIN strategies :
    /\ RangeOf(getStrategyVersions(sid)) = VersionsOf(sid)
    /\ Len(getStrategyVersions(sid)) = Cardinality(VersionsOf(sid))

\* Every version row is in the table after the step as it was before it.
C5_Step == \A v \in strategy_versions : v \in strategy_versions'

\* C5: no operation changes an existing version row, and every version of a
\* strategy is still returned by getStrategyVersions, with the content it was
\* created with, after later calls.
C5_VersionsImmutable == [](C5_State) /\ [][C5_Step]_vars

C5_Witness ==
  \E sid \in DOMAIN strategies :
    \E v, w \in VersionsOf(sid) :
      /\ v.version_number = 1 /\ w.version_number = 2
      /\ v.title # w.title
      /\ strategies[sid].current_version_id = w.id
      /\ getStrategyVersions(sid) = <<w, v>>

\* C7: in updateStrategy the failure of any backend call (read of the pointer,
\* read of the version number, insert, pointer update) makes the call throw
\* that call's error and issue no later write.
C7_FailureAborts ==
  \A p \in Sessions :
    sess[p].failedCall # "none" =>
      /\ sess[p].pc = "error"
      /\ sess[p].err.call = sess[p].failedCall
      /\ ~sess[p].writeAfterFail

\* The steps of an updateStrategy call that read a null pointer.
C8_Step ==
  \A p \in Sessions :
    LET s == sess[p]
        t == sess'[p]
    IN  (s.sid \in DOMAIN strategies /\ s.curRead = NULL /\ t.pc # "error") =>
          /\ (s.pc = "us_readCur" /\ t.pc # s.pc
               /\ strategies[s.sid].current_version_id = NULL)
               => (t.pc = "us_insVersion" /\ t.next = 1)
          /\ (s.pc = "us_insVersion" /\ t.pc # s.pc /\ VersionsOf(s.sid) = {})
               => \E v \in strategy_versions' :
                    /\ v.id = t.newVid /\ v.strategy_id = s.sid
                    /\ v.version_number = 1
                    /\ strategy_versions' = strategy_versions \cup {v}
          /\ (s.pc = "us_updPointer" /\ t.pc # s.pc)
               => strategies'[s.sid].current_version_id = s.newVid

\* C8: updateStrategy on a strategy without current version and without
\* version rows computes number 1, inserts the row numbered 1 and makes it
\* current (unless a backend call fails).
C8_ZeroVersions == [][C8_Step]_vars

C8_Witness ==
  \E p \in Sessions :
    /\ sess[p].flow = "edit" /\ sess[p].wrotePtr /\ sess[p].curRead = NULL
    /\ VersionsOf(sess[p].sid) =
         { VersionRow(sess[p].newVid, sess[p].sid, 1, sess[p].form,
                      sess[p].form.change_notes) }
    /\ strategies[sess[p].sid].current_version_id = sess[p].newVid

SameContent(i, j) ==
  /\ i.storage_path = j.storage_path
  /\ i.url = j.url
  /\ i.alt_text = j.alt_text
  /\ i.position_in_content = j.position_in_content

\* The step that returns from copyImagesToVersion, no insert having failed.
C4_Step ==
  \A p \in Sessions :
    LET s == sess[p]
        t == sess'[p]
    IN  (s.pc \in {"cp_select", "cp_insert"} /\ t.pc = "d_get"
         /\ Len(t.copied) = Len(t.attempted)) =>
          \A i \in { r \in ImagesOf(s.sid) : r.version_id = s.prevCur }' :
            \E j \in ImagesOfVersion(s.sid, s.versionId)' : SameContent(i, j)

\* C4: when an edit has created a new version and copyImagesToVersion has
\* returned without a failed insert, every image row attached to the version
\* that was current before the edit (or, if there was none, every row with
\* null version_id) has a row attached to the new version with the same
\* storage_path, url, alt_text and position_in_content.
C4_CopyForward == [][C4_Step]_vars

\* The pointer of v's strategy has moved on to a later version.
NoLongerCurrent(v) ==
  /\ StrategyExists(v.strategy_id)
  /\ LET cur == strategies[v.strategy_id].current_version_id IN
     /\ cur # NULL /\ cur # v.id
     /\ \E c \in strategy_versions :
          c.id = cur /\ c.version_number > v.version_number

\* The step removes no image row (it is not an image deletion).
NoImageDeleted ==
  \A i \in strategy_images : \E j \in strategy_images' : j.id = i.id

\* The image rows of the versions that are no longer current are the same
\* after the step.
C6_Step ==
  \A v \in strategy_versions :
    (NoLongerCurrent(v) /\ NoImageDeleted) =>
      ImagesOfVersion(v.strategy_id, v.id)' = ImagesOfVersion(v.strategy_id, v.id)

\* C6: once a version is no longer current, no step of an edit submission
\* (updateStrategy, copyImagesToVersion, the description updates, new uploads)
\* changes the set of image rows attached to it or their content.
C6_OldVersionsKeepImages == [][C6_Step]_vars

NoDuplicates(q) == \A i, j \in 1..Len(q) : i # j => q[i] # q[j]

SortedByPosition(q) ==
  \A i, j \in 1..Len(q) :
    i < j => q[i].position_in_content <= q[j].position_in_content

\* The copy loop's progress: rows attempted once each in position order, the
\* copies returned being the rows inserted for the new version.
C9_State ==
  \A p \in Sessions :
    LET s == sess[p] IN
    /\ s.pc \in {"cp_insert", "d_get"} =>
         /\ NoDuplicates(s.attempted)
         /\ SortedByPosition(s.attempted)
         /\ RangeOf(s.attempted) \cup s.copyQueue = s.copySel
         /\ RangeOf(s.attempted) \cap s.copyQueue = {}
         /\ s.pc = "d_get" => s.copyQueue = {}
         /\ Len(s.copied) <= Len(s.attempted)
         /\ RangeOf(s.copied) = ImagesOfVersion(s.sid, s.versionId)
         /\ \A r \in RangeOf(s.copied) :
              \E i \in RangeOf(s.attempted) : SameContent(i, r)
    /\ s.err.call = "copySelect" =>
         /\ s.attempted = << >>
         /\ ImagesOfVersion(s.sid, s.versionId) = {}

\* The loop never throws; the select throws or hands over the source rows.
C9_Step ==
  \A p \in Sessions :
    /\ sess[p].pc = "cp_insert" => sess'[p].pc \in {"cp_insert", "d_get"}
    /\ (sess[p].pc = "cp_select" /\ sess'[p].pc # "cp_select") =>
         \/ sess'[p].pc = "error" /\ sess'[p].err.call = "copySelect"
         \/ sess'[p].pc # "error" /\ sess'[p].copySel = CopySource(sess[p])

\* C9: copyImagesToVersion attempts every selected row exactly once in
\* position order, returns exactly the rows it inserted also when inserts
\* failed, and throws only when the select failed, having inserted nothing.
C9_CopySkipsFailures == [](C9_State) /\ [][C9_Step]_vars

C9_Witness ==
  \E p \in Sessions :
    /\ sess[p].pc = "d_get"
    /\ Len(sess[p].attempted) = 2
    /\ Len(sess[p].copied) = 1

HasAlt(rows, id, text) == \E i \in rows : i.id = id /\ i.alt_text = text
Untouched(id) == \A i \in strategy_images : i.id = id => i \in strategy_images'

\* One iteration of the description loop, as the claim states it.
C10_StepAsStated ==
  \A p \in Sessions :
    LET s == sess[p]
        t == sess'[p]
    IN  (s.pc = "d_update" /\ t.pc # "error" /\ t.descQueue # s.descQueue) =>
          LET e == Head(s.descQueue)
              orig == OriginalImage(s, e.id)
              d == Trim(e.description)
              ms == { m \in RangeOf(s.newImgs) : Matches(m, orig) }
          IN  IF ms # {}
              THEN /\ \E m \in ms : HasAlt(strategy_images', m.id, d)
                   /\ Untouched(orig.id)
              ELSE HasAlt(strategy_images', orig.id, d)

C10_Step ==
  \A p \in Sessions :
    LET s == sess[p]
        t == sess'[p]
    IN  (s.pc = "d_update" /\ t.pc # "error" /\ t.descQueue # s.descQueue) =>
          LET e == Head(s.descQueue)
              orig == OriginalImage(s, e.id)
              d == Trim(e.description)
              k == FindMatch(s.newImgs, orig)
          IN  /\ (k # 0 /\ d # "") =>
                   /\ HasAlt(strategy_images', s.newImgs[k].id, d)
                   /\ Untouched(orig.id)
              /\ (k # 0 /\ d = "") => strategy_images' = strategy_images
              /\ k = 0 => HasAlt(strategy_images', orig.id, d)

C11_SameStrategy ==
  \A i \in strategy_images :
    i.version_id # NULL =>
      \E v \in strategy_versions :
        v.id = i.version_id /\ v.strategy_id = i.strategy_id

C11_Witness ==
  \E i, j, k \in strategy_images :
    /\ i.strategy_id # j.strategy_id
    /\ i.version_id # NULL /\ j.version_id # NULL
    /\ k.strategy_id = i.strategy_id /\ k.version_id # i.version_id
    /\ k.storage_path = i.storage_path

\* The session is inside uploadStrategyImages or has left it by its throw.
InUploadLoop(s) ==
  \/ s.pc \in {"u_upload", "u_createImage"}
  \/ s.pc = "error" /\ s.err.call \in {"uploadImage", "createStrategyImage"}

\* The image rows the call has recorded: those of the files it has stored.
RecordedRows(s) ==
  { r \in strategy_images :
      r.strategy_id = s.sid /\ r.version_id = s.versionId
        /\ r.url \in RangeOf(s.imageUrls) }

\* With index i reached, rows are recorded for exactly the files 0..i-1, one
\* each at the position of its file; a thrown error names file i.
C15_State ==
  \A p \in Sessions :
    LET s == sess[p] IN
    InUploadLoop(s) =>
      /\ s.idx < Len(s.uploadedImages)
      /\ Cardinality(RecordedRows(s)) = s.idx
      /\ \A k \in 0..(s.idx - 1) :
           \E r \in RecordedRows(s) :
             r.url = s.imageUrls[k + 1] /\ r.position_in_content = s.base + k
      /\ Len(s.imageUrls) = IF s.pc = "u_createImage" \/ s.err.call = "createStrategyImage"
                            THEN s.idx + 1 ELSE s.idx
      /\ s.pc = "error" => s.failedFile = s.uploadedImages[s.idx + 1].name

\* The loop handles one file at a time in index order: file i is stored, then
\* its row is inserted, then file i + 1 is taken up; a failure ends the call
\* without touching a row.
C15_Step ==
  \A p \in Sessions :
    LET s == sess[p]
        t == sess'[p]
    IN  /\ (s.pc = "u_upload" /\ t.pc # s.pc) =>
             /\ t.pc \in {"u_createImage", "error"}
             /\ t.idx = s.idx
             /\ strategy_images' = strategy_images
        /\ (s.pc = "u_createImage" /\ t.pc # s.pc) =>
             \/ /\ t.pc = "error" /\ t.idx = s.idx
                /\ strategy_images' = strategy_images
             \/ /\ t.idx = s.idx + 1
                /\ t.pc = IF t.idx < Len(s.uploadedImages) THEN "u_upload"
                          ELSE "done"
                /\ \E r \in strategy_images' \ strategy_images :
                     /\ strategy_images' = strategy_images \cup {r}
                     /\ r.storage_path = s.path
                     /\ r.position_in_content = s.base + s.idx
        /\ (s.pc = "error" /\ InUploadLoop(s)) =>
             /\ strategy_images' = strategy_images
             /\ bucket' = bucket

\* C15: uploadStrategyImages handles the pending files one at a time in index
\* order; when the step for file i fails, rows are recorded for exactly the
\* files 0..i-1, nothing is attempted for the files after i, the thrown error
\* names file i, and the rows of the files 0..i-1 are left as they are.
C15_UploadPrefix == [](C15_State) /\ [][C15_Step]_vars

C15_Witness ==
  \E p \in Sessions :
    LET s == sess[p] IN
    /\ s.flow = "edit" /\ s.pc = "error" /\ s.err.call = "createStrategyImage"
    /\ s.idx = 1 /\ Len(s.uploadedImages) = 2 /\ s.base >= 1
    /\ s.failedFile = "img2"
    /\ Cardinality(RecordedRows(s)) = 1

\* The files the claim has accepted: MIME type starting with image/ (of the
\* types of the model: image/png) and at most 5242880 bytes.
C16_Accepted(files) ==
  SelectSeq(files, LAMBDA f : f.type = "image/png" /\ f.size <= 5242880)

\* A change event on the create form.
C16_Step ==
  \A p \in Sessions :
    LET s == sess[p]
        t == sess'[p]
    IN  (s.pc = "idle" /\ t.pc = "idle" /\ ops' = ops + 1) =>
          /\ t.uploadedImages = s.uploadedImages \o C16_Accepted(t.selected)
          /\ Len(t.files) = Len(t.uploadedImages)
          /\ Len(C16_Accepted(t.selected)) < Len(t.selected) => t.selectError
          /\ strategy_images' = strategy_images

\* The create form's submission has ended with every upload done.
C16_State ==
  \A p \in Sessions :
    LET s == sess[p] IN
    (s.flow = "create" /\ s.pc = "done") =>
      /\ Cardinality(ImagesOfVersion(s.sid, s.versionId))
           = Len(s.uploadedImages)
      /\ \E v \in VersionsOf(s.sid) :
           v.id = s.versionId /\ v.version_number = 1

\* C16: handleImageSelect appends to the pending list exactly the selected
\* files that are images of at most 5 MB, in selection order, also when other
\* files of the selection are rejected (which sets the error message); after
\* a creation whose uploads all succeeded, the initial version has as many
\* image rows as files were accepted.
C16_AcceptedFiles == [](C16_State) /\ [][C16_Step]_vars

C16_Witness ==
  \E p \in Sessions :
    LET s == sess[p] IN
    /\ s.flow = "create" /\ s.pc = "done"
    /\ Len(s.selected) = 3 /\ Len(s.uploadedImages) = 2
    /\ Cardinality(ImagesOfVersion(s.sid, s.versionId)) = 2

\* C12: for every map, strategy_count is the number of strategy rows whose
\* map_id is that map.
C12_StrategyCount ==
  \A m \in DOMAIN maps :
    maps[m].strategy_count = Cardinality(StrategiesOfMap(m))

C12_Witness ==
  /\ 1 \in DOMAIN strategies /\ strategies[1].map_id = 2
  /\ DOMAIN maps = {1, 2}
  /\ maps[2].strategy_count = 1 /\ maps[1].strategy_count = 0
  /\ sess["A"].err.call \in {"insertVersion", "updatePointer"}
  /\ sess["A"].sid \notin DOMAIN strategies

\* Every reference names an existing row.
C13_State ==
  /\ \A sid \in DOMAIN strategies : strategies[sid].map_id \in DOMAIN maps
  /\ \A v \in strategy_versions : v.strategy_id \in DOMAIN strategies
  /\ \A i \in strategy_images :
       /\ i.strategy_id \in DOMAIN strategies
       /\ i.version_id # NULL => VersionExists(i.version_id)

\* A step that deletes a map.
C13_Step ==
  \A m \in (DOMAIN maps) \ (DOMAIN maps') :
    LET gone == StrategiesOfMap(m) IN
    /\ \A sid \in DOMAIN strategies' : strategies'[sid].map_id # m
    /\ \A v \in strategy_versions' : v.strategy_id \notin gone
    /\ \A i \in strategy_images' : i.strategy_id \notin gone
    /\ \A k \in (DOMAIN maps) \ {m} : k \in DOMAIN maps' /\ maps'[k] = maps[k]
    /\ \A sid \in (DOMAIN strategies) \ gone :
         sid \in DOMAIN strategies' /\ strategies'[sid] = strategies[sid]
    /\ \A v \in strategy_versions : v.strategy_id \notin gone => v \in strategy_versions'
    /\ \A i \in strategy_images : i.strategy_id \notin gone => i \in strategy_images'

\* C13: after deleteMap(m) succeeded no strategy of map m is left, nor a
\* version or image row of such a strategy, while the rows of the other maps
\* are as before; and in every state each strategy references an existing
\* map, each version an existing strategy, each image an existing strategy
\* and, when its version_id is not null, an existing version.
C13_DeleteMapCascades == [](C13_State) /\ [][C13_Step]_vars

C13_Witness ==
  /\ DOMAIN maps = {2}
  /\ DOMAIN strategies = {2}
  /\ nextId.image > 2
  /\ \A i \in strategy_images : i.strategy_id = 2
  /\ strategy_images # {}

\* C14: for every existing strategy, getStrategy by the aggregated call and
\* getStrategy by the fallback queries (the aggregated call failing, nothing
\* else) return the same title, the same description and the same set of
\* image rows.
C14_SamePaths ==
  \A sid \in DOMAIN strategies :
    LET rpc == get_strategy_with_version(sid)
        fallback == getStrategyFallback(sid, FALSE)
    IN  /\ rpc.title = fallback.title
        /\ rpc.description = fallback.description
        /\ rpc.images = fallback.images

\* What the two paths do agree on: the current version and the image rows.
C14_SameVersionAndImages ==
  \A sid \in DOMAIN strategies :
    LET rpc == get_strategy_with_version(sid)
        fallback == getStrategyFallback(sid, FALSE)
    IN  /\ rpc.current_version = fallback.current_version
        /\ rpc.images = fallback.images

\* C18: a read operation (getStrategy, getStrategyWithCache, getStrategies
\* by the fallback, searchStrategies) in which the single-row lookup of a
\* current version failed has thrown, and returned no result.
C18_VersionErrorThrown ==
  \A p \in Sessions : sess[p].ret.versionError => sess[p].ret.threw

\* The operations of the claim by what they leave to the caller.
C17_State ==
  \A p \in Sessions :
    LET r == sess[p].ret IN
    /\ r.call \in {"createStrategy", "updateStrategy", "createStrategyImage",
                   "copyImagesToVersion", "updateStrategyImage", "uploadImage",
                   "deleteImage"}
         => r.kind = "error" /\ r.data \subseteq ConfigurationErrors /\ r.data # {}
    /\ r.call \in {"getStrategies", "searchStrategies", "getStrategyVersions"}
         => r.kind = "list" /\ r.data = << >>
    /\ r.call = "getStrategy" => r.kind = "null"
    /\ r.call \in {"deleteStrategy", "deleteStrategyImage"} => r.kind = "void"

C17_Step ==
  \A p \in Sessions :
    (sess'[p].ret # sess[p].ret /\ sess'[p].ret.call \in UnconfiguredCalls)
      => mockMaps' = mockMaps

\* C17: with the backend unconfigured createStrategy, updateStrategy,
\* createStrategyImage, copyImagesToVersion, updateStrategyImage, uploadImage
\* and deleteImage throw a configuration error, getStrategies,
\* searchStrategies and getStrategyVersions return an empty list, getStrategy
\* returns null, deleteStrategy and deleteStrategyImage return without
\* error, and none of them changes the mock map list.
C17_Unconfigured == [](C17_State) /\ [][C17_Step]_vars

C17_Witness ==
  /\ sess["A"].ret.call = "deleteStrategy"
  /\ sess["A"].ret.kind = "void"
  /\ Len(mockMaps) = 3

\* No two maps of the list have the same id or the same name.
C19_Unique ==
  \A i, j \in 1..Len(mockMaps) :
    i # j => mockMaps[i].id # mockMaps[j].id /\ mockMaps[i].name # mockMaps[j].name

\* A call of the map operations by its effect on the list and its result.
C19_Step ==
  LET r == sess'["A"].ret
      called(c) == r.call = c /\ (ops' # ops \/ r # sess["A"].ret)
  IN
  /\ called("getMaps") => r.data = mockMaps
  /\ called("getMap") =>
       \/ r.kind = "null"
       \/ \E k \in 1..Len(mockMaps) : r.data = {mockMaps[k]}
  /\ called("createMap") =>
       \E m \in r.data : mockMaps' = Append(mockMaps, m)
  /\ (called("updateMap") /\ r.kind = "error") =>
       r.data = {"Map not found"} /\ mockMaps' = mockMaps
  /\ (called("updateMap") /\ r.kind = "row") =>
       /\ Len(mockMaps') = Len(mockMaps)
       /\ \E k \in 1..Len(mockMaps) :
            /\ r.data = {mockMaps'[k]}
            /\ \A j \in 1..Len(mockMaps) : j # k => mockMaps'[j] = mockMaps[j]
  /\ called("deleteMap") =>
       \/ mockMaps' = mockMaps
       \/ \E k \in 1..Len(mockMaps) :
            mockMaps' = SubSeq(mockMaps, 1, k - 1) \o SubSeq(mockMaps, k + 1, Len(mockMaps))

\* C19: with the backend unconfigured, after any sequence of createMap,
\* updateMap and deleteMap, getMaps returns the seeded maps plus the created
\* ones minus the deleted ones with the latest update applied, getMap returns
\* the map of the id or null, updateMap of an unknown id throws 'Map not
\* found' and deleteMap of an unknown id changes nothing, and no two maps of
\* the list have the same id or the same name.
C19_MockMaps == [](C19_Unique) /\ [][C19_Step]_vars

\* The part of C19 that is about single calls.
C19_Calls == [][C19_Step]_vars

\* The version number the pointer of a strategy stands at, 0 for no version.
CurrentNumber(sid) ==
  IF strategies[sid].current_version_id # NULL
       /\ VersionExists(strategies[sid].current_version_id)
  THEN VersionById(strategies[sid].current_version_id).version_number
  ELSE 0

\* A version numbered above the pointer's was inserted and the pointer
\* update for it is not to come: it failed.
PointerLeftBehind(sid) ==
  /\ \E v \in VersionsOf(sid) : v.version_number = CurrentNumber(sid) + 1
  /\ \A p \in Sessions :
       sess[p].sid = sid => sess[p].pc \notin {"c_updPointer", "us_updPointer"}

C20_Step ==
  \A sid \in DOMAIN strategies :
    PointerLeftBehind(sid) =>
      /\ { v \in strategy_versions' : v.strategy_id = sid } = VersionsOf(sid)
      /\ strategies'[sid].current_version_id = strategies[sid].current_version_id
      /\ \A p \in Sessions :
           (sess[p].pc = "us_insVersion" /\ sess[p].sid = sid
              /\ sess'[p].pc # "us_insVersion") =>
             /\ sess'[p].pc = "error"
             /\ sess'[p].err.call = "insert"
             /\ (sess[p].failedCall = "none"
                  /\ sess[p].curRead = strategies[sid].current_version_id)
                => sess[p].next = CurrentNumber(sid) + 1
             /\ sess'[p].err.kind # "backend" => sess'[p].err.kind = "unique"

C21_CopySourceIsPredecessor ==
  \A p \in Sessions :
    sess[p].pc \in {"cp_select", "cp_insert"} => sess[p].loadedCur = sess[p].prevCur

\* The number of a version row never changes (C5), so the number the pointer
\* stands at changes only with the pointer.
C22_Step ==
  \A sid \in DOMAIN strategies :
    strategies'[sid].current_version_id # strategies[sid].current_version_id =>
      /\ strategies'[sid].current_version_id # NULL
      /\ CurrentNumber(sid)' >= CurrentNumber(sid)

\* C22: in no step of createStrategy or updateStrategy, however the calls of
\* two tabs interleave and fail, does a strategy's current_version_id go
\* from a version back to null, or the version_number of the version it
\* names decrease.
C22_PointerMonotonic == [][C22_Step]_vars

C22_Witness ==
  /\ failures >= 1
  /\ \E sid \in DOMAIN strategies : CurrentNumber(sid) = 2
  /\ \E p \in Sessions : sess[p].pc = "error" /\ sess[p].err.kind = "unique"

\* The step in which a createStrategy call fails after its strategy insert.
CreateFails(p) ==
  /\ sess[p].pc \in {"c_insVersion", "c_updPointer", "c_fetchVersion"}
  /\ sess'[p].pc = "error"

\* No compensating delete: the failing step leaves the tables as they are,
\* with the strategy row and the version row the call inserted.
NoRollback(p) ==
  /\ strategies' = strategies
  /\ strategy_versions' = strategy_versions
  /\ sess[p].sid \in DOMAIN strategies
  /\ sess[p].pc \in {"c_updPointer", "c_fetchVersion"} => VersionExists(sess[p].newVid)

C23_Step ==
  \A p \in Sessions :
    CreateFails(p) =>
      /\ NoRollback(p)
      /\ sess[p].pc = "c_updPointer"
           => strategies'[sess[p].sid].current_version_id = NULL
      /\ sess[p].pc = "c_insVersion"
           => \/ strategies'[sess[p].sid].current_version_id = NULL
              \/ \E v \in VersionsOf(sess[p].sid) :
                   /\ v.id = strategies[sess[p].sid].current_version_id
                   /\ v.change_notes # "Initial version"

\* C23: a createStrategy call that fails after its strategy insert throws
\* without a compensating delete: the strategy row and the version row it
\* inserted stay.  After a failure at the pointer update the strategy has
\* current_version_id null; after a failure at the version insert it has
\* current_version_id null unless an updateStrategy of another tab has
\* inserted a version for the new strategy and pointed the strategy at it
\* (the edit forms' change notes are never 'Initial version').
C23_NoRollback == [][C23_Step]_vars

C23_Witness ==
  \E p \in Sessions :
    /\ sess[p].pc = "error" /\ sess[p].flow = "create"
    /\ sess[p].err = Err("updatePointer", "backend")
    /\ sess[p].sid \in DOMAIN strategies
    /\ strategies[sess[p].sid].current_version_id = NULL
    /\ VersionExists(sess[p].newVid)

C23_StepAsStated ==
  \A p \in Sessions :
    CreateFails(p) =>
      /\ NoRollback(p)
      /\ sess[p].pc \in {"c_insVersion", "c_updPointer"}
           => strategies'[sess[p].sid].current_version_id = NULL

\* C23 as stated: a createStrategy call that fails after its strategy insert
\* throws without a compensating delete, and when the failure is at the
\* version insert or the pointer update the strategy is left with
\* current_version_id null.
C23_NoRollbackAsStated == [][C23_StepAsStated]_vars

\* C24: the image rows attached to one version have pairwise distinct
\* position_in_content values.
C24_DistinctPositions ==
  \A i, j \in strategy_images :
    (i.id # j.id /\ i.version_id # NULL /\ i.version_id = j.version_id)
      => i.position_in_content # j.position_in_content

\* C25: the image set the detail page selects for a strategy never holds
\* two rows with the same storage_path (looked at while no submission is
\* under way).
C25_NoDuplicatePaths ==
  (\A p \in Sessions : AtRest(sess[p])) =>
    \A sid \in DOMAIN strategies :
      \A i, j \in currentVersionImages(sid) :
        i.id # j.id => i.storage_path # j.storage_path

\* C26: once uploadStrategyImages has returned or thrown, every object it
\* stored in the bucket (imageUrls holds their URLs) has a strategy_images
\* row with the object's storage path.
C26_StoredFilesRecorded ==
  \A p \in Sessions :
    sess[p].pc \in {"done", "error"} =>
      \A k \in 1..Len(sess[p].imageUrls) :
        \E path \in bucket :
          /\ UrlOf(path) = sess[p].imageUrls[k]
          /\ \E i \in strategy_images : i.storage_path = path

\* At most one getStrategy request of a detail page is under way.
C27_State ==
  \A p \in Sessions : Cardinality(sess[p].detail.inflight) <= 1

\* The strategy shown is never replaced by the answer of an earlier load.
C27_Step ==
  \A p \in Sessions : sess'[p].detail.from >= sess[p].detail.from

\* C27: on the strategy detail page at most one getStrategy request is in
\* flight at any time (initial load, refresh and visibility-change reload
\* included), and the answer of an earlier load never overwrites the
\* strategy set by a later load.
C27_SequentialLoads == [](C27_State) /\ [][C27_Step]_vars

\* The second half of C27 alone.
C27_NoStaleOverwrite == [][C27_Step]_vars

\* C28: with a configured backend, getStrategy(id) for an id that names no
\* strategy resolves to null without throwing, on the rpc path and on the
\* fallback path.
C28_MissingIsNull ==
  [][\A p \in Sessions :
       ReadGetStrategyMissing(p) =>
         (~sess'[p].ret.threw /\ sess'[p].ret.data = {})]_vars

\* C29: a strategy whose current_version_id is not null has the title and the
\* description of the version it references.
C29_TitleOfCurrentVersion ==
  \A sid \in DOMAIN strategies :
    \A v \in strategy_versions :
      v.id = strategies[sid].current_version_id =>
        /\ strategies[sid].title = v.title
        /\ strategies[sid].description = v.description

\* An edit changed the title and its version is the current one.
C29_Witness ==
  \E sid \in DOMAIN strategies :
    \E v, w \in VersionsOf(sid) :
      /\ v.version_number = 1 /\ w.version_number = 2
      /\ v.title # w.title /\ v.description # w.description
      /\ strategies[sid].current_version_id = w.id
      /\ strategies[sid].title = w.title
      /\ \A p \in Sessions : AtRest(sess[p])

\* The three lists have one length and agree index by index.
Aligned(s) ==
  /\ Len(s.files) = Len(s.uploadedImages)
  /\ Len(s.imagePreviews) = Len(s.uploadedImages)
  /\ \A i \in 1..Len(s.uploadedImages) :
       s.imagePreviews[i] = ReaderResult(s.uploadedImages[i])

\* C30: on the create and edit forms, after file selections, removeImage
\* calls and FileReader completions in any order (every reader started has
\* finished), uploadedImages and imageDescriptions have one length, and
\* imagePreviews has the same length with imagePreviews[i] the preview of
\* uploadedImages[i].
C30_PreviewsAligned ==
  \A p \in Sessions :
    (sess[p].pc \in {"idle", "e_loaded"} /\ sess[p].readers = << >>) =>
      Aligned(sess[p])

\* The part of C30 about uploadedImages and imageDescriptions.
C30_DescriptionsAligned ==
  \A p \in Sessions :
    sess[p].pc \in {"idle", "e_loaded"} =>
      Len(sess[p].files) = Len(sess[p].uploadedImages)

====
